---------------------------- MODULE Spec2Model ----------------------------
(***************************************************************************)
(* Model of the phase-transition Lorenz engine of Epsilon                  *)
(* (usePhaseLorenz in src/src/store/epsilonStore.ts, the integrator in     *)
(* src/src/utils/lorenzMath.ts, lerpColor in src/unnamed/part_002).        *)
(*                                                                         *)
(* Numbers.  JavaScript numbers are modelled as fixed-point integers with  *)
(* Unit units per 1.0 and one extra value, NonFinite, standing for NaN and *)
(* the infinities.  Arithmetic propagates NonFinite and a result whose     *)
(* magnitude exceeds FiniteMax becomes NonFinite (overflow).  A            *)
(* Float32Array cell keeps fewer digits than a number: storing rounds to   *)
(* the nearest multiple of F32Grid (Fround).                               *)
(*                                                                         *)
(* Time.  One tick is 1/6000 s, so that the reference frame (1/60 s) and   *)
(* the phase durations (1.5 s, 5.0 s, 1.0 s) are whole numbers of ticks.   *)
(***************************************************************************)
EXTENDS Integers, Sequences, FiniteSets, TLC

\* ------------------------------------------------------------------------
\* Numbers
\* ------------------------------------------------------------------------

\* Body applied to the value of v: v is evaluated once, whatever the number
\* of places Body uses it in.
Let(v, Body(_)) == CHOOSE r \in {Body(x) : x \in {v}} : TRUE

\* Units per 1.0 of the fixed-point representation of a JavaScript number.
Unit == 10 ^ 4

\* Largest finite magnitude (in units); beyond it a result is NonFinite.
FiniteMax == 2 * (10 ^ 9)

\* The value standing for NaN, +Infinity and -Infinity.
NonFinite == 0 - (FiniteMax + 1)

\* Number.isFinite
IsFinite(v) == v # NonFinite

Abs(v) == IF v < 0 THEN 0 - v ELSE v

Min2(a, b) == IF a < b THEN a ELSE b

Max2(a, b) == IF a > b THEN a ELSE b

\* a + b
FAdd[a \in Int, b \in Int] ==
  IF a = NonFinite \/ b = NonFinite THEN NonFinite
  ELSE IF a > 0 /\ b > FiniteMax - a THEN NonFinite
  ELSE IF a < 0 /\ b < (0 - FiniteMax) - a THEN NonFinite
  ELSE a + b

\* a - b
FSub[a \in Int, b \in Int] ==
  IF b = NonFinite THEN NonFinite ELSE FAdd[a, 0 - b]

\* Product of two non-negative fixed-point numbers, rounded down to a unit.
\* Both factors are split at Unit so that no partial product leaves the
\* machine integers of the checker.
MulMag[a \in Nat, b \in Nat] ==
  LET ah == a \div Unit
      al == a % Unit
      bh == b \div Unit
      bl == b % Unit
  IN  IF ah > 0 /\ bh > 0 /\ bh > (FiniteMax \div Unit) \div ah THEN NonFinite
      ELSE IF ah > 0 /\ bl > 0 /\ ah > FiniteMax \div bl THEN NonFinite
      ELSE IF al > 0 /\ bh > 0 /\ bh > FiniteMax \div al THEN NonFinite
      ELSE FAdd[FAdd[ah * bh * Unit, ah * bl],
                FAdd[al * bh, (al * bl) \div Unit]]

\* a * b
FMul[a \in Int, b \in Int] ==
  IF a = NonFinite \/ b = NonFinite THEN NonFinite
  ELSE IF (a < 0) = (b < 0) THEN MulMag[Abs(a), Abs(b)]
  ELSE FSub[0, MulMag[Abs(a), Abs(b)]]

\* a / d for a whole number d > 0, rounded to the nearest unit.
FDiv[a \in Int, d \in Nat] ==
  IF a = NonFinite THEN NonFinite
  ELSE IF a < 0 THEN 0 - (((0 - a) + (d \div 2)) \div d)
  ELSE (a + (d \div 2)) \div d

\* The number n / d for whole numbers n >= 0 and d > 0, rounded to the
\* nearest unit.
FRatio[n \in Nat, d \in Nat] ==
  IF n \div d > (FiniteMax \div Unit) - 1 THEN NonFinite
  ELSE (n \div d) * Unit + ((n % d) * Unit + (d \div 2)) \div d

\* Resolution of a Float32Array cell, in units.
F32Grid == 2 ^ 3

\* Math.fround: what a Float32Array cell holds after a number is stored.
Fround[v \in Int] ==
  IF v = NonFinite THEN NonFinite
  ELSE IF v < 0 THEN 0 - ((((0 - v) + (F32Grid \div 2)) \div F32Grid) * F32Grid)
  ELSE ((v + (F32Grid \div 2)) \div F32Grid) * F32Grid

\* ------------------------------------------------------------------------
\* Integrator (lorenzMath.ts)
\* ------------------------------------------------------------------------

\* Integration time step: DT = 0.005 = 1 / DT_DEN.  Multiplying by dt / k is
\* modelled as dividing by DT_DEN * k.
DT_DEN == 200

\* lorenzDerivative with the sign of z slipped in dy/dt.
lorenzDerivativeSignSlip(p, params) ==
  [x |-> FMul[params.sigma, FSub[p.y, p.x]],
   y |-> FSub[FMul[p.x, FAdd[params.rho, p.z]], p.y],
   z |-> FSub[FMul[p.x, p.y], FMul[params.beta, p.z]]]

\* Lorenz system derivative: dx/dt, dy/dt, dz/dt
lorenzDerivative(p, params) ==
  [x |-> FMul[params.sigma, FSub[p.y, p.x]],
   y |-> FSub[FMul[p.x, FSub[params.rho, p.z]], p.y],
   z |-> FSub[FMul[p.x, p.y], FMul[params.beta, p.z]]]

\* pos + (dt / den) * k, componentwise
rk4Offset(pos, k, den) ==
  [x |-> FAdd[pos.x, FDiv[k.x, DT_DEN * den]],
   y |-> FAdd[pos.y, FDiv[k.y, DT_DEN * den]],
   z |-> FAdd[pos.z, FDiv[k.z, DT_DEN * den]]]

\* k1 + 2 * k2 + 2 * k3 + k4, componentwise
rk4Weights(k1, k2, k3, k4) ==
  [x |-> FAdd[FAdd[k1.x, FMul[2 * Unit, k2.x]], FAdd[FMul[2 * Unit, k3.x], k4.x]],
   y |-> FAdd[FAdd[k1.y, FMul[2 * Unit, k2.y]], FAdd[FMul[2 * Unit, k3.y], k4.y]],
   z |-> FAdd[FAdd[k1.z, FMul[2 * Unit, k2.z]], FAdd[FMul[2 * Unit, k3.z], k4.z]]]

\* Single RK4 step with dt = DT
rk4Step(pos, params) ==
  Let(lorenzDerivative(pos, params), LAMBDA k1 :
  Let(rk4Offset(pos, k1, 2), LAMBDA p2 :
  Let(lorenzDerivative(p2, params), LAMBDA k2 :
  Let(rk4Offset(pos, k2, 2), LAMBDA p3 :
  Let(lorenzDerivative(p3, params), LAMBDA k3 :
  Let(rk4Offset(pos, k3, 1), LAMBDA p4 :
  Let(lorenzDerivative(p4, params), LAMBDA k4 :
  Let(rk4Weights(k1, k2, k3, k4), LAMBDA k :
    rk4Offset(pos, k, 6)))))))))

\* lerpParams whose beta runs towards the sigma of the target.
lerpParamsBetaSlip(a, b, t) ==
  [sigma |-> FAdd[a.sigma, FMul[FSub[b.sigma, a.sigma], t]],
   rho   |-> FAdd[a.rho, FMul[FSub[b.rho, a.rho], t]],
   beta  |-> FAdd[a.beta, FMul[FSub[b.sigma, a.beta], t]]]

\* Linearly interpolate between two parameter sets
lerpParams(a, b, t) ==
  [sigma |-> FAdd[a.sigma, FMul[FSub[b.sigma, a.sigma], t]],
   rho   |-> FAdd[a.rho, FMul[FSub[b.rho, a.rho], t]],
   beta  |-> FAdd[a.beta, FMul[FSub[b.beta, a.beta], t]]]

\* Status quo: sigma 10, rho 24, beta 8/3
STATUS_QUO_PARAMS ==
  [sigma |-> 10 * Unit, rho |-> 24 * Unit, beta |-> (8 * Unit) \div 3]

\* Default initial condition (1, 1, 1)
DEFAULT_INITIAL == [x |-> Unit, y |-> Unit, z |-> Unit]

\* ------------------------------------------------------------------------
\* Colors (colorMapping.ts)
\* ------------------------------------------------------------------------

\* Electric cyan (0.0, 0.9, 1.0)
STATUS_QUO_COLOR == [r |-> 0, g |-> (9 * Unit) \div 10, b |-> Unit]

\* Neon orange (1.0, 0.45, 0.0), one of the choice palette anchors
NEON_ORANGE == [r |-> Unit, g |-> (45 * Unit) \div 100, b |-> 0]

\* Linearly interpolate between two colors
lerpColor(a, b, t) ==
  [r |-> FAdd[a.r, FMul[FSub[b.r, a.r], t]],
   g |-> FAdd[a.g, FMul[FSub[b.g, a.g], t]],
   b |-> FAdd[a.b, FMul[FSub[b.b, a.b], t]]]

\* Neon violet (0.55, 0.0, 1.0)
NEON_VIOLET == [r |-> (55 * Unit) \div 100, g |-> 0, b |-> Unit]

\* Neon magenta (1.0, 0.0, 0.85)
NEON_MAGENTA == [r |-> Unit, g |-> 0, b |-> (85 * Unit) \div 100]

\* Neon pink (1.0, 0.1, 0.45)
NEON_PINK == [r |-> Unit, g |-> Unit \div 10, b |-> (45 * Unit) \div 100]

\* Volatility (0-100) to a color of the warm neon spectrum.
volatilityToColor(volatility) ==
  Let(Max2(0, Min2(100 * Unit, volatility)), LAMBDA v :
    IF v <= 33 * Unit
    THEN lerpColor(NEON_VIOLET, NEON_MAGENTA, FDiv[v, 33])
    ELSE IF v <= 66 * Unit
    THEN lerpColor(NEON_MAGENTA, NEON_PINK, FDiv[FSub[v, 33 * Unit], 33])
    ELSE lerpColor(NEON_PINK, NEON_ORANGE, FDiv[FSub[v, 66 * Unit], 34]))

\* ------------------------------------------------------------------------
\* Configuration of the hook (useLorenzSolver section of epsilonStore.ts)
\* ------------------------------------------------------------------------

\* Visible trail points: the capacity of the ring buffers.  The program
\* sets 4000; the model runs with a small capacity so that the ring wraps.
TRAIL_LENGTH == 5

\* RK4 substeps per animation frame
STEPS_PER_FRAME == 8

\* 1/60 s, in ticks: the tick is chosen so that the reference frame is 100.
REFERENCE_FRAME_SECONDS == 100

\* Ticks in one second.
TicksPerSecond == 60 * REFERENCE_FRAME_SECONDS

\* 1.5 s of status-quo behaviour before the transition begins
WARMUP_SECONDS == (15 * TicksPerSecond) \div 10

\* 5.0 s of linear parameter/color lerp
TRANSITION_SECONDS == 5 * TicksPerSecond

\* 1.0 s after the transition ends before onTransitionComplete is called
SETTLE_SECONDS == 1 * TicksPerSecond

\* Time at which onTransitionComplete fires
COMPLETE_SECONDS == WARMUP_SECONDS + TRANSITION_SECONDS + SETTLE_SECONDS

Slots == 0 .. (TRAIL_LENGTH - 1)

\* brightnessLUT with a linear ease in place of the quadratic one.
brightnessLUTLinear(i) ==
  Let(FRatio[i, TRAIL_LENGTH - 1], LAMBDA t :
    Fround[FAdd[FRatio[2, 100], FMul[FRatio[98, 100], t]]])

\* One entry of the brightness lookup table (tail dim -> head bright),
\* as the Float32Array cell holds it.
brightnessLUT(i) ==
  Let(FRatio[i, TRAIL_LENGTH - 1], LAMBDA t :
    Fround[FAdd[FRatio[2, 100], FMul[FRatio[98, 100], FMul[t, t]]]])

\* A Float32Array of TRAIL_LENGTH * 3 zeros, as TRAIL_LENGTH triples.
ZeroBuf == [i \in Slots |-> <<0, 0, 0>>]

\* Three numbers stored into three consecutive Float32Array cells.
StoreVec(p) == <<Fround[p.x], Fround[p.y], Fround[p.z]>>

StoreColor(c) == <<Fround[c.r], Fround[c.g], Fround[c.b]>>

\* ------------------------------------------------------------------------
\* The frame callback, piece by piece
\* ------------------------------------------------------------------------

\* FrameSkipped without the guard: the callback runs whatever active is.
FrameSkippedNever(isActive) == FALSE

\* if (!active) return
FrameSkipped(isActive) == ~isActive

\* AdvanceClock that starts over once the timeline is through (a looping
\* animation).
AdvanceClockLoops(elapsed, delta) == (elapsed + delta) % (COMPLETE_SECONDS + 1)

\* AdvanceClock with the sign of the delta slipped.
AdvanceClockBackwards(elapsed, delta) == elapsed - delta

\* elapsedSeconds.current += delta
AdvanceClock(elapsed, delta) == elapsed + delta

\* LerpT without the cap at 1: the lerp goes on after the transition.
LerpTUnclamped(elapsed) ==
  IF elapsed > WARMUP_SECONDS
  THEN FRatio[elapsed - WARMUP_SECONDS, TRANSITION_SECONDS]
  ELSE 0

\* LerpT without the warm-up: the lerp starts at elapsed 0.
LerpTNoWarmup(elapsed) == Min2(FRatio[elapsed, TRANSITION_SECONDS], Unit)

\* Linear lerp progress for an elapsed time (a number in [0, 1]).
LerpT(elapsed) ==
  IF elapsed > WARMUP_SECONDS
  THEN Min2(FRatio[elapsed - WARMUP_SECONDS, TRANSITION_SECONDS], Unit)
  ELSE 0

\* Math.round of the ratio n / d of two whole numbers, d > 0, n >= 0.
MathRound(n, d) == (2 * n + d) \div (2 * d)

\* Substeps without the lower clamp: a frame may run no substep.
SubstepsNoMinimum(delta) ==
  Min2(MathRound(delta * STEPS_PER_FRAME, REFERENCE_FRAME_SECONDS),
       STEPS_PER_FRAME * 4)

\* Substeps with Math.floor in place of Math.round.
SubstepsFloors(delta) ==
  Max2(1, Min2((delta * STEPS_PER_FRAME) \div REFERENCE_FRAME_SECONDS,
               STEPS_PER_FRAME * 4))

\* Substeps clamped at five frames' worth instead of four.
SubstepsLooseClamp(delta) ==
  Max2(1, Min2(MathRound(delta * STEPS_PER_FRAME, REFERENCE_FRAME_SECONDS),
               STEPS_PER_FRAME * 5))

\* Substeps run for a frame delta.
Substeps(delta) ==
  Max2(1, Min2(MathRound(delta * STEPS_PER_FRAME, REFERENCE_FRAME_SECONDS),
               STEPS_PER_FRAME * 4))

\* SubstepBody with the point count saturating one short of the capacity.
SubstepBodyShortCount(e, currentParams, currentColor) ==
  Let(rk4Step(e.pos, currentParams), LAMBDA p :
    [e EXCEPT
       !.pos = p,
       !.rawPosBuf = [@ EXCEPT ![e.writeIndex] = StoreVec(p)],
       !.rawColorBuf = [@ EXCEPT ![e.writeIndex] = StoreColor(currentColor)],
       !.writeIndex = (@ + 1) % TRAIL_LENGTH,
       !.visibleCount = IF @ < TRAIL_LENGTH - 1 THEN @ + 1 ELSE @,
       !.emitted = Append(@, [pos |-> p, color |-> currentColor])])

\* SubstepBody that writes the position before integrating it: the ring
\* runs one step behind pos.current.
SubstepBodyWritesBefore(e, currentParams, currentColor) ==
  Let(rk4Step(e.pos, currentParams), LAMBDA p :
    [e EXCEPT
       !.pos = p,
       !.rawPosBuf = [@ EXCEPT ![e.writeIndex] = StoreVec(e.pos)],
       !.rawColorBuf = [@ EXCEPT ![e.writeIndex] = StoreColor(currentColor)],
       !.writeIndex = (@ + 1) % TRAIL_LENGTH,
       !.visibleCount = IF @ < TRAIL_LENGTH THEN @ + 1 ELSE @,
       !.emitted = Append(@, [pos |-> e.pos, color |-> currentColor])])

\* SubstepBody that integrates from the position the frame started with at
\* every pass (pos.current is not updated).
SubstepBodyKeepsPos(e, currentParams, currentColor) ==
  Let(rk4Step(e.pos, currentParams), LAMBDA p :
    [e EXCEPT
       !.rawPosBuf = [@ EXCEPT ![e.writeIndex] = StoreVec(p)],
       !.rawColorBuf = [@ EXCEPT ![e.writeIndex] = StoreColor(currentColor)],
       !.writeIndex = (@ + 1) % TRAIL_LENGTH,
       !.visibleCount = IF @ < TRAIL_LENGTH THEN @ + 1 ELSE @,
       !.emitted = Append(@, [pos |-> p, color |-> currentColor])])

\* SubstepBody on a shifting array: once the trail is full every sample
\* moves one slot down and the new one goes into the last slot.
SubstepBodyShifts(e, currentParams, currentColor) ==
  Let(rk4Step(e.pos, currentParams), LAMBDA p :
    IF e.visibleCount < TRAIL_LENGTH
    THEN [e EXCEPT
            !.pos = p,
            !.rawPosBuf = [@ EXCEPT ![e.writeIndex] = StoreVec(p)],
            !.rawColorBuf = [@ EXCEPT ![e.writeIndex] = StoreColor(currentColor)],
            !.writeIndex = (@ + 1) % TRAIL_LENGTH,
            !.visibleCount = @ + 1,
            !.emitted = Append(@, [pos |-> p, color |-> currentColor])]
    ELSE [e EXCEPT
            !.pos = p,
            !.rawPosBuf = [j \in Slots |->
               IF j = TRAIL_LENGTH - 1 THEN StoreVec(p) ELSE @[j + 1]],
            !.rawColorBuf = [j \in Slots |->
               IF j = TRAIL_LENGTH - 1 THEN StoreColor(currentColor) ELSE @[j + 1]],
            !.writeIndex = 0,
            !.emitted = Append(@, [pos |-> p, color |-> currentColor])])

\* SubstepBody that stamps the current color on every point of the trail
\* (the trail is recolored at each write).
SubstepBodyRestamps(e, currentParams, currentColor) ==
  Let(rk4Step(e.pos, currentParams), LAMBDA p :
    [e EXCEPT
       !.pos = p,
       !.rawPosBuf = [@ EXCEPT ![e.writeIndex] = StoreVec(p)],
       !.rawColorBuf = [j \in Slots |->
          IF j = e.writeIndex \/ j < e.visibleCount
          THEN StoreColor(currentColor) ELSE @[j]],
       !.writeIndex = (@ + 1) % TRAIL_LENGTH,
       !.visibleCount = IF @ < TRAIL_LENGTH THEN @ + 1 ELSE @,
       !.emitted = Append(@, [pos |-> p, color |-> currentColor])])

\* One pass of the substep loop on the simulation state e: integrate, write
\* position and color at writeIndex, advance writeIndex, count the point.
\* e.emitted logs the (position, color) handed to each write, in order.
SubstepBody(e, currentParams, currentColor) ==
  Let(rk4Step(e.pos, currentParams), LAMBDA p :
    [e EXCEPT
       !.pos = p,
       !.rawPosBuf = [@ EXCEPT ![e.writeIndex] = StoreVec(p)],
       !.rawColorBuf = [@ EXCEPT ![e.writeIndex] = StoreColor(currentColor)],
       !.writeIndex = (@ + 1) % TRAIL_LENGTH,
       !.visibleCount = IF @ < TRAIL_LENGTH THEN @ + 1 ELSE @,
       !.emitted = Append(@, [pos |-> p, color |-> currentColor])])

RECURSIVE SubstepLoop(_, _, _, _)
\* for (let step = 0; step < substeps; step++) { ... }
SubstepLoop(e, currentParams, currentColor, substeps) ==
  IF substeps = 0 THEN e
  ELSE Let(SubstepBody(e, currentParams, currentColor), LAMBDA next :
         SubstepLoop(next, currentParams, currentColor, substeps - 1))

\* The display color of a raw color c under brightness b.
Lit(c, b) == <<Fround[FMul[c[1], b]], Fround[FMul[c[2], b]], Fround[FMul[c[3], b]]>>

\* RebuildDisplay reading the ring from slot 0 whatever the write index.
RebuildDisplayNoWrap(e) ==
  LET visible          == e.visibleCount
      brightnessOffset == TRAIL_LENGTH - visible
  IN  [e EXCEPT
         !.displayPosBuf = [i \in Slots |->
            IF i < visible THEN e.rawPosBuf[i] ELSE @[i]],
         !.displayColorBuf = [i \in Slots |->
            IF i < visible
            THEN Let(brightnessLUT(brightnessOffset + i), LAMBDA b :
                   Lit(e.rawColorBuf[i], b))
            ELSE @[i]],
         !.drawRange = visible]

\* RebuildDisplay reading the brightness table from entry 0 whatever the
\* count (no brightnessOffset).
RebuildDisplayNoOffset(e) ==
  LET visible          == e.visibleCount
      oldestIndex      == IF visible = TRAIL_LENGTH THEN e.writeIndex ELSE 0
      src(i)           == (oldestIndex + i) % TRAIL_LENGTH
  IN  [e EXCEPT
         !.displayPosBuf = [i \in Slots |->
            IF i < visible THEN e.rawPosBuf[src(i)] ELSE @[i]],
         !.displayColorBuf = [i \in Slots |->
            IF i < visible
            THEN Let(brightnessLUT(i), LAMBDA b : Lit(e.rawColorBuf[src(i)], b))
            ELSE @[i]],
         !.drawRange = visible]

\* RebuildDisplay that dims the raw colors in place before copying them.
RebuildDisplayDimsRaw(e) ==
  LET visible          == e.visibleCount
      oldestIndex      == IF visible = TRAIL_LENGTH THEN e.writeIndex ELSE 0
      brightnessOffset == TRAIL_LENGTH - visible
      src(i)           == (oldestIndex + i) % TRAIL_LENGTH
      at(j)            == (j + TRAIL_LENGTH - oldestIndex) % TRAIL_LENGTH
      dim(j)           == Let(brightnessLUT(brightnessOffset + at(j)), LAMBDA b :
                            Lit(e.rawColorBuf[j], b))
  IN  [e EXCEPT
         !.rawColorBuf = [j \in Slots |-> IF at(j) < visible THEN dim(j) ELSE @[j]],
         !.displayPosBuf = [i \in Slots |->
            IF i < visible THEN e.rawPosBuf[src(i)] ELSE @[i]],
         !.displayColorBuf = [i \in Slots |->
            IF i < visible THEN dim(src(i)) ELSE @[i]],
         !.drawRange = visible]

\* Rebuild of the contiguous draw buffers from the ring window
\* (oldest -> newest), display color = raw color x brightness LUT.
RebuildDisplay(e) ==
  LET visible          == e.visibleCount
      oldestIndex      == IF visible = TRAIL_LENGTH THEN e.writeIndex ELSE 0
      brightnessOffset == TRAIL_LENGTH - visible
      src(i)           == (oldestIndex + i) % TRAIL_LENGTH
  IN  [e EXCEPT
         !.displayPosBuf = [i \in Slots |->
            IF i < visible THEN e.rawPosBuf[src(i)] ELSE @[i]],
         !.displayColorBuf = [i \in Slots |->
            IF i < visible
            THEN Let(brightnessLUT(brightnessOffset + i), LAMBDA b :
                   Lit(e.rawColorBuf[src(i)], b))
            ELSE @[i]],
         !.drawRange = visible]

\* CompletionDue without the one-shot flag.
CompletionDueRepeats(hasCalled, elapsed) == elapsed >= COMPLETE_SECONDS

\* CompletionDue that needs the threshold to be passed, not reached.
CompletionDueStrict(hasCalled, elapsed) ==
  ~hasCalled /\ elapsed > COMPLETE_SECONDS

\* if (!hasCalledComplete.current && elapsed >= COMPLETE_SECONDS)
CompletionDue(hasCalled, elapsed) == ~hasCalled /\ elapsed >= COMPLETE_SECONDS

\* ------------------------------------------------------------------------
\* Inputs and bounds of the exploration
\* ------------------------------------------------------------------------

\* Frame-callback invocations explored in one run.
MaxFrames == 3

\* Changes of the target props (each runs the reset effect) in one run.
MaxConfigures == 1

\* Frame deltas, in ticks: 0, 7.5 ms (3.6 reference substeps, fewer than the
\* ring holds), one reference frame (1/60 s), ten reference frames, and
\* 3.75 s (a stalled tab; two of them make 7.5 s).
Deltas == {0, 45, 100, 1000, 22500}

\* A choice as scoresToParams yields it (scores 50/50/50) with its color.
ChoiceTarget ==
  [params |-> [sigma |-> 11 * Unit, rho |-> 37 * Unit, beta |-> 3 * Unit],
   color  |-> NEON_ORANGE]

\* A target whose rho is 0.
ZeroRhoTarget ==
  [params |-> [sigma |-> 11 * Unit, rho |-> 0, beta |-> 3 * Unit],
   color  |-> NEON_ORANGE]

\* A target of positive parameters under which the integration diverges
\* (sigma 100000: the step dt * sigma is far beyond the stability of RK4).
StiffTarget ==
  [params |-> [sigma |-> (10 ^ 5) * Unit, rho |-> 37 * Unit, beta |-> 3 * Unit],
   color  |-> NEON_ORANGE]

Targets == {ChoiceTarget, ZeroRhoTarget, StiffTarget}

\* All three scalars strictly positive (and hence numbers).
ValidParams(p) == p.sigma > 0 /\ p.rho > 0 /\ p.beta > 0

\* ------------------------------------------------------------------------
\* State
\* ------------------------------------------------------------------------

VARIABLES
  targetParams,      \* targetParamsRef.current
  targetColor,       \* targetColorRef.current
  startColor,        \* startColorRef.current
  active,            \* the active prop
  pos,               \* pos.current
  elapsedSeconds,    \* elapsedSeconds.current, in ticks
  rawColorBuf,       \* ring buffer of raw colors
  rawPosBuf,         \* ring buffer of raw positions
  displayPosBuf,     \* contiguous positions handed to the renderer
  displayColorBuf,   \* contiguous colors handed to the renderer
  visibleCount,      \* visibleCount.current
  writeIndex,        \* writeIndex.current
  hasCalledComplete, \* hasCalledComplete.current
  drawRange,         \* count given to setDrawRange
  frame,             \* what the most recent frame callback did
  written,           \* history: the last TRAIL_LENGTH samples handed to a write
  nwrites,           \* history: writes since the last reset
  completions,       \* history: onTransitionComplete calls since the last reset
  prior,             \* history: writes and completion flag just before the last reset
  frames,            \* history: frame callbacks so far
  configures,        \* history: target changes so far
  lut,               \* the entries of brightnessLUT filled so far at module load
  orbit,             \* the state of a run under the status-quo parameters
  orbitSteps,        \* rk4Step calls of that run so far
  call,              \* the last call of a boundary function: name, argument, result
  phase,             \* store: "idle", "loading" or "visualizing"
  mode,              \* store: "single" or "comparison"
  inputA,            \* store: first user input
  inputB,            \* store: second user input
  attractors,        \* store: computed attractor data (0, 1 or 2 entries)
  transitionComplete, \* store: the lerp animation has finished
  pending,           \* submit calls awaiting their analysis
  submits,           \* history: submit calls that started an analysis
  latest,            \* history: the inputs of the last of them
  op,                \* history: the last store operation
  engine,            \* the hook of the first attractor as the scene mounts it
  clocks             \* two sessions' frame clocks, in double precision

simVars == <<pos, elapsedSeconds, rawColorBuf, rawPosBuf, displayPosBuf,
             displayColorBuf, visibleCount, writeIndex, hasCalledComplete,
             drawRange>>

propVars == <<targetParams, targetColor, startColor, active>>

histVars == <<written, nwrites, completions, prior>>

hookVars == <<propVars, simVars, frame, histVars, frames, configures>>

loadVars == <<lut, orbit, orbitSteps>>

storeVars == <<phase, mode, inputA, inputB, attractors, transitionComplete>>

appVars == <<storeVars, pending, submits, latest, op, engine>>

vars == <<hookVars, loadVars, call, appVars, clocks>>

\* No boundary function has been called.
NoCall == [fn |-> "none", arg |-> <<>>, result |-> <<>>]

\* The refs read and written by the substep loop and the display rebuild.
Sim ==
  [pos |-> pos, rawPosBuf |-> rawPosBuf, rawColorBuf |-> rawColorBuf,
   displayPosBuf |-> displayPosBuf, displayColorBuf |-> displayColorBuf,
   writeIndex |-> writeIndex, visibleCount |-> visibleCount,
   drawRange |-> drawRange, emitted |-> <<>>]

\* No frame callback has run since the last reset.
NoFrame ==
  [ran |-> FALSE, delta |-> 0, lerpT |-> 0, substeps |-> 0, completed |-> FALSE]

\* The last n entries of a sequence (all of it when it is shorter).
LastN(s, n) == IF Len(s) <= n THEN s ELSE SubSeq(s, Len(s) - n + 1, Len(s))

\* ------------------------------------------------------------------------
\* Operations
\* ------------------------------------------------------------------------

\* ResetEffect that empties the trail but leaves the write index where it
\* was.
ResetEffectKeepsIndex ==
  /\ pos' = DEFAULT_INITIAL
  /\ elapsedSeconds' = 0
  /\ rawColorBuf' = ZeroBuf
  /\ rawPosBuf' = ZeroBuf
  /\ displayPosBuf' = ZeroBuf
  /\ displayColorBuf' = ZeroBuf
  /\ visibleCount' = 0
  /\ writeIndex' = writeIndex
  /\ hasCalledComplete' = FALSE
  /\ drawRange' = 0

\* ResetEffect that leaves the display colors and the completion flag alone.
ResetEffectPartial ==
  /\ pos' = DEFAULT_INITIAL
  /\ elapsedSeconds' = 0
  /\ rawColorBuf' = ZeroBuf
  /\ rawPosBuf' = ZeroBuf
  /\ displayPosBuf' = ZeroBuf
  /\ displayColorBuf' = displayColorBuf
  /\ visibleCount' = 0
  /\ writeIndex' = 0
  /\ hasCalledComplete' = hasCalledComplete
  /\ drawRange' = 0

\* The reset effect (runs on mount and when targetParams, targetColor or
\* startColor change): the simulation state it leaves.
ResetEffect ==
  /\ pos' = DEFAULT_INITIAL
  /\ elapsedSeconds' = 0
  /\ rawColorBuf' = ZeroBuf
  /\ rawPosBuf' = ZeroBuf
  /\ displayPosBuf' = ZeroBuf
  /\ displayColorBuf' = ZeroBuf
  /\ visibleCount' = 0
  /\ writeIndex' = 0
  /\ hasCalledComplete' = FALSE
  /\ drawRange' = 0

\* No canvas is rendered: the hook is not mounted and no frame callback is
\* registered.
NoEngine ==
  [mounted |-> FALSE, active |-> FALSE, elapsedSeconds |-> 0,
   visibleCount |-> 0, hasCalledComplete |-> FALSE, frames |-> 0,
   completed |-> FALSE]

\* The store as create() leaves it, no submit under way.
StoreInit ==
  /\ phase = "idle"
  /\ mode = "single"
  /\ inputA = <<>>
  /\ inputB = <<>>
  /\ attractors = <<>>
  /\ transitionComplete = FALSE
  /\ pending = {}
  /\ submits = 0
  /\ latest = <<>>
  /\ op = "create"
  /\ engine = NoEngine

\* The number 0 as a double (see the frame clock in double precision).
DoubleZero == <<0, 0, 0>>

\* The two sessions whose clocks are compared.
Sessions == {"A", "B"}

\* Both sessions just reset: elapsedSeconds 0, hasCalledComplete false.
\* total is the exact sum of the deltas passed so far, calls their number.
ClockInit ==
  clocks = [s \in Sessions |->
              [elapsedSeconds |-> DoubleZero, total |-> DoubleZero,
               hasCalledComplete |-> FALSE, calls |-> 0]]

\* The brightness table once the module is loaded.
LutFilled == [i \in 1..TRAIL_LENGTH |-> brightnessLUT(i - 1)]

\* The hook right after it mounted.
HookInit ==
  /\ targetParams = ChoiceTarget.params
  /\ targetColor = ChoiceTarget.color
  /\ startColor = STATUS_QUO_COLOR
  /\ active \in BOOLEAN
  /\ pos = DEFAULT_INITIAL
  /\ elapsedSeconds = 0
  /\ rawColorBuf = ZeroBuf
  /\ rawPosBuf = ZeroBuf
  /\ displayPosBuf = ZeroBuf
  /\ displayColorBuf = ZeroBuf
  /\ visibleCount = 0
  /\ writeIndex = 0
  /\ hasCalledComplete = FALSE
  /\ drawRange = 0
  /\ frame = NoFrame
  /\ written = <<>>
  /\ nwrites = 0
  /\ completions = 0
  /\ prior = [writes |-> 0, completed |-> FALSE]
  /\ frames = 0
  /\ configures = 0

Init ==
  /\ HookInit
  /\ lut = LutFilled
  /\ orbit = DEFAULT_INITIAL
  /\ orbitSteps = 0
  /\ call = NoCall
  /\ StoreInit
  /\ ClockInit

\* The component is re-rendered with changed target props: the refs take
\* the new values and the reset effect runs.
Configure(t) ==
  /\ configures < MaxConfigures
  /\ <<t.params, t.color>> # <<targetParams, targetColor>>
  /\ configures' = configures + 1
  /\ targetParams' = t.params
  /\ targetColor' = t.color
  /\ startColor' = STATUS_QUO_COLOR
  /\ ResetEffect
  /\ frame' = NoFrame
  /\ written' = <<>>
  /\ nwrites' = 0
  /\ completions' = 0
  /\ prior' = [writes |-> nwrites, completed |-> hasCalledComplete]
  /\ UNCHANGED <<active, frames, loadVars, call, appVars, clocks>>

\* The component is re-rendered with the active prop flipped.
SetActive ==
  /\ active' = ~active
  /\ UNCHANGED <<targetParams, targetColor, startColor, simVars, frame,
                 histVars, frames, configures, loadVars, call, appVars, clocks>>

\* The frame callback, called by the render loop with the frame delta.
UseFrame(delta) ==
  /\ frames < MaxFrames
  /\ frames' = frames + 1
  /\ IF FrameSkipped(active)
     THEN /\ frame' = NoFrame
          /\ UNCHANGED <<simVars, histVars>>
     ELSE \E elapsed \in {AdvanceClock(elapsedSeconds, delta)} :
          \E lerpT \in {LerpT(elapsed)} :
          \E currentParams \in {lerpParams(STATUS_QUO_PARAMS, targetParams, lerpT)} :
          \E currentColor \in {lerpColor(startColor, targetColor, lerpT)} :
          \E looped \in {SubstepLoop(Sim, currentParams, currentColor, Substeps(delta))} :
          \E returnsEarly \in {looped.visibleCount = 0} :
          \E e \in {IF returnsEarly THEN looped ELSE RebuildDisplay(looped)} :
          \E fires \in {~returnsEarly /\ CompletionDue(hasCalledComplete, elapsed)} :
              /\ elapsedSeconds' = elapsed
              /\ pos' = e.pos
              /\ rawPosBuf' = e.rawPosBuf
              /\ rawColorBuf' = e.rawColorBuf
              /\ displayPosBuf' = e.displayPosBuf
              /\ displayColorBuf' = e.displayColorBuf
              /\ writeIndex' = e.writeIndex
              /\ visibleCount' = e.visibleCount
              /\ drawRange' = e.drawRange
              /\ hasCalledComplete' = (hasCalledComplete \/ fires)
              /\ frame' = [ran |-> TRUE, delta |-> delta, lerpT |-> lerpT,
                           substeps |-> Len(e.emitted), completed |-> fires]
              /\ written' = LastN(written \o e.emitted, TRAIL_LENGTH)
              /\ nwrites' = nwrites + Len(e.emitted)
              /\ completions' = completions + (IF fires THEN 1 ELSE 0)
              /\ prior' = prior
  /\ UNCHANGED <<propVars, configures, loadVars, call, appVars, clocks>>

Next ==
  \/ \E t \in Targets : Configure(t)
  \/ SetActive
  \/ \E delta \in Deltas : UseFrame(delta)

Spec == Init /\ [][Next]_vars

\* ------------------------------------------------------------------------
\* Module load and the status-quo run
\* ------------------------------------------------------------------------

\* rk4Step calls of the status-quo run: ten seconds of 60 frames of
\* STEPS_PER_FRAME substeps (10 * 60 * 8).
MaxOrbitSteps == 4800

\* One turn of the loop that fills brightnessLUT.
FillLut ==
  /\ Len(lut) < TRAIL_LENGTH
  /\ lut' = Append(lut, brightnessLUT(Len(lut)))
  /\ UNCHANGED <<hookVars, orbit, orbitSteps, call, appVars, clocks>>

\* One substep with the target equal to STATUS_QUO_PARAMS, whatever the
\* lerp progress.
OrbitStep ==
  /\ orbitSteps < MaxOrbitSteps
  /\ \E lerpT \in {0, Unit \div 2, Unit} :
       orbit' = rk4Step(orbit, lerpParams(STATUS_QUO_PARAMS, STATUS_QUO_PARAMS, lerpT))
  /\ orbitSteps' = orbitSteps + 1
  /\ UNCHANGED <<hookVars, lut, call, appVars, clocks>>

LoadInit ==
  /\ HookInit
  /\ lut = <<>>
  /\ orbit = DEFAULT_INITIAL
  /\ orbitSteps = 0
  /\ call = NoCall
  /\ StoreInit
  /\ ClockInit

LoadNext ==
  \/ FillLut
  \/ OrbitStep

LoadSpec == LoadInit /\ [][LoadNext]_vars

\* ------------------------------------------------------------------------
\* Boundary functions: score mapping (lorenzMath.ts) and the backend's
\* sanitizer (api/analyze.js)
\* ------------------------------------------------------------------------

\* mapScore without the clamp of the score to [0, 100].
mapScoreUnclamped(score, min, max) ==
  FAdd[min, FMul[FDiv[score, 100], FSub[max, min]]]

\* Map a 0-100 score to [min, max] by linear interpolation.
mapScore(score, min, max) ==
  Let(Max2(0, Min2(100 * Unit, score)), LAMBDA clamped :
    FAdd[min, FMul[FDiv[clamped, 100], FSub[max, min]]])

\* Map semantic scores to Lorenz parameters.
scoresToParams(scores) ==
  [sigma |-> mapScore(scores.focus, 6 * Unit, 16 * Unit),
   rho   |-> mapScore(scores.volatility, 26 * Unit, 48 * Unit),
   beta  |-> mapScore(scores.momentum, (15 * Unit) \div 10, (45 * Unit) \div 10)]

\* Scores handed to scoresToParams: -20, 0, 0.5, 33, 50, 99.5, 100, 130.
ScoreInputs ==
  {0 - 20 * Unit, 0, Unit \div 2, 33 * Unit, 50 * Unit,
   (995 * Unit) \div 10, 100 * Unit, 130 * Unit}

\* A JSON number, a JSON string, and the values that are neither.
JsonNumber(v) == [kind |-> "number", val |-> v, text |-> ""]

JsonString(t) == [kind |-> "string", val |-> 0, text |-> t]

JsonOther(k) == [kind |-> k, val |-> 0, text |-> ""]

\* Values a field of the parsed model response may hold: the numbers -3,
\* -0.5, 49.5, 100.4, 250 and 1e999 (parsed as Infinity), the strings
\* "75", "abc" and "", null, true, an object, and an absent field.
JsonValues ==
  {JsonNumber(0 - 3 * Unit), JsonNumber(0 - (Unit \div 2)),
   JsonNumber((495 * Unit) \div 10), JsonNumber((1004 * Unit) \div 10),
   JsonNumber(250 * Unit), JsonNumber(NonFinite),
   JsonString("75"), JsonString("abc"), JsonString(""),
   JsonOther("null"), JsonOther("true"), JsonOther("object"),
   JsonOther("undefined")}

\* Number(v) for a JSON value.
ToNumber(v) ==
  CASE v.kind = "number" -> v.val
    [] v.kind = "string" ->
         (CASE v.text = "" -> 0
            [] v.text = "75" -> 75 * Unit
            [] OTHER -> NonFinite)
    [] v.kind = "null" -> 0
    [] v.kind = "true" -> Unit
    [] OTHER -> NonFinite

\* Math.round of a finite number: the nearest whole number, the upper one
\* on a tie.
RoundNumber(n) == ((n + Unit \div 2) \div Unit) * Unit

\* clampScore without the rounding.
clampScoreNoRound(v) ==
  Let(ToNumber(v), LAMBDA n :
    IF ~IsFinite(n) THEN 50 * Unit
    ELSE Max2(0, Min2(100 * Unit, n)))

\* clampScore of api/analyze.js
clampScore(v) ==
  Let(ToNumber(v), LAMBDA n :
    IF ~IsFinite(n) THEN 50 * Unit
    ELSE Max2(0, Min2(100 * Unit, RoundNumber(n))))

\* sanitize of api/analyze.js; the default narrative quotes the first 40
\* characters of the input.
sanitize(parsed, input) ==
  [volatility |-> clampScore(parsed.volatility),
   focus      |-> clampScore(parsed.focus),
   momentum   |-> clampScore(parsed.momentum),
   label      |-> IF parsed.label.kind = "string"
                  THEN parsed.label.text ELSE "Unknown Path",
   narrative  |-> IF parsed.narrative.kind = "string"
                  THEN <<parsed.narrative.text>>
                  ELSE <<"A path shaped by", SubSeq(input, 1, Min2(Len(input), 40))>>]

\* ------------------------------------------------------------------------
\* The offline analysis (mockAgent.ts).  A string is the sequence of its
\* UTF-16 code units.
\* ------------------------------------------------------------------------

\* "go", " Go ", "Quit my job", "``f~~wq" (its hash is the least 32-bit
\* integer), the empty string and two blanks.
TextGo == <<103, 111>>

TextGoPadded == <<32, 71, 111, 32>>

TextQuit == <<81, 117, 105, 116, 32, 109, 121, 32, 106, 111, 98>>

TextMinHash == <<96, 96, 102, 126, 126, 119, 113>>

TextEmpty == <<>>

TextBlank == <<32, 32>>

Texts == {TextGo, TextGoPadded, TextQuit, TextMinHash, TextEmpty, TextBlank}

\* White space as String.prototype.trim sees it (the ASCII part).
IsSpace(c) == c \in {9, 10, 11, 12, 13, 32}

RECURSIVE TrimStart(_)
\* The string without its leading white space.
TrimStart(str) ==
  IF Len(str) > 0 /\ IsSpace(Head(str)) THEN TrimStart(Tail(str)) ELSE str

RECURSIVE TrimEnd(_)
\* The string without its trailing white space.
TrimEnd(str) ==
  IF Len(str) > 0 /\ IsSpace(str[Len(str)])
  THEN TrimEnd(SubSeq(str, 1, Len(str) - 1))
  ELSE str

\* String.prototype.trim
Trim(str) == TrimEnd(TrimStart(str))

\* String.prototype.toLowerCase (the ASCII letters)
ToLowerCase(str) ==
  [i \in 1..Len(str) |-> IF str[i] \in 65..90 THEN str[i] + 32 ELSE str[i]]

\* Half a 32-bit word.
Half == 2 ^ 16

\* ((hash << 5) - hash + char) | 0: 31 * hash + char wrapped to a signed
\* 32-bit integer, computed on the two halves of the word.
HashStep(hash, char) ==
  Let((hash % Half) * 31 + char, LAMBDA lo :
  Let((((hash \div Half) % Half) * 31 + lo \div Half) % Half, LAMBDA hi :
    IF hi >= Half \div 2
    THEN (hi - Half) * Half + (lo % Half)
    ELSE hi * Half + (lo % Half)))

RECURSIVE HashLoop(_, _, _)
\* The loop of hashString from index i on.
HashLoop(str, i, hash) ==
  IF i > Len(str) THEN hash
  ELSE Let(HashStep(hash, str[i]), LAMBDA next : HashLoop(str, i + 1, next))

\* A whole number of up to 2^31 in magnitude, as sign and the two halves
\* of the magnitude (2^31 itself is hi = 32768, lo = 0).
WholeNumber(neg, hi, lo) == [neg |-> neg, hi |-> hi, lo |-> lo]

\* The signed 32-bit integer as a number.
FromInt32(hash) ==
  IF hash >= 0 THEN WholeNumber(FALSE, hash \div Half, hash % Half)
  ELSE IF hash % Half = 0
       THEN WholeNumber(TRUE, 0 - (hash \div Half), 0)
       ELSE WholeNumber(TRUE, 0 - (hash \div Half) - 1, Half - (hash % Half))

\* hashString without Math.abs.
hashStringNoAbs(str) == FromInt32(HashLoop(str, 1, 0))

\* hashString: the hash of a string as a non-negative seed.
hashString(str) ==
  Let(FromInt32(HashLoop(str, 1, 0)), LAMBDA n : WholeNumber(FALSE, n.hi, n.lo))

\* 20 + ((seed * (offset + 7)) % 71); the remainder has the sign of the
\* product.
seedToScore(seed, offset) ==
  Let((((seed.hi % 71) * (Half % 71) + (seed.lo % 71)) * (offset + 7)) % 71,
      LAMBDA r : IF seed.neg THEN 20 - r ELSE 20 + r)

\* generateLabel
generateLabel(volatility, focus) ==
  IF volatility > 65 /\ focus > 65 THEN "Ambitious Gambit"
  ELSE IF volatility > 65 /\ focus <= 65 THEN "Wild Card"
  ELSE IF volatility <= 35 /\ focus > 65 THEN "Steady Course"
  ELSE IF volatility <= 35 /\ focus <= 35 THEN "Quiet Drift"
  ELSE IF focus > 65 THEN "Laser Focus"
  ELSE IF volatility > 65 THEN "Volatile Leap"
  ELSE "Balanced Path"

\* generateNarrative: the words chosen and the quoted start of the input.
generateNarrative(input, volatility, focus, momentum) ==
  [intensity |-> IF volatility > 60 THEN "turbulent"
                 ELSE IF volatility > 35 THEN "dynamic" ELSE "stable",
   direction |-> IF focus > 60 THEN "with clear direction"
                 ELSE IF focus > 35 THEN "with moderate clarity"
                 ELSE "drifting freely",
   energy    |-> IF momentum > 60 THEN "strong forward momentum"
                 ELSE IF momentum > 35 THEN "moderate inertia" ELSE "gentle pace",
   quoted    |-> SubSeq(input, 1, Min2(Len(input), 40)),
   ellipsis  |-> Len(input) > 40]

\* The analysis of the input at position idx (0 or 1); the scores are
\* numbers.
MockAnalysis(input, idx) ==
  Let(hashString(ToLowerCase(Trim(input))), LAMBDA seed :
  Let(seedToScore(seed, 3 + idx * 11), LAMBDA volatility :
  Let(seedToScore(seed, 7 + idx * 13), LAMBDA focus :
  Let(seedToScore(seed, 11 + idx * 17), LAMBDA momentum :
    [volatility |-> volatility * Unit,
     focus      |-> focus * Unit,
     momentum   |-> momentum * Unit,
     label      |-> generateLabel(volatility, focus),
     narrative  |-> generateNarrative(input, volatility, focus, momentum)]))))

\* What the promise of mockLLMAnalysis resolves to.
mockLLMAnalysis(inputs) ==
  [n \in 1..Len(inputs) |-> MockAnalysis(inputs[n], n - 1)]

\* A call of mockLLMAnalysis with one or two inputs.
CallMockLLMAnalysis ==
  /\ call.fn = "none"
  /\ \E inputs \in {<<a>> : a \in Texts} \cup (Texts \X Texts) :
       call' = [fn |-> "mockLLMAnalysis", arg |-> inputs,
                result |-> mockLLMAnalysis(inputs)]
  /\ UNCHANGED <<hookVars, loadVars, appVars, clocks>>

\* A call of scoresToParams (one call is followed in each behaviour).
CallScoresToParams ==
  /\ call.fn = "none"
  /\ \E v \in ScoreInputs : \E f \in ScoreInputs : \E m \in ScoreInputs :
       \E scores \in {[volatility |-> v, focus |-> f, momentum |-> m]} :
         call' = [fn |-> "scoresToParams", arg |-> scores,
                  result |-> scoresToParams(scores)]
  /\ UNCHANGED <<hookVars, loadVars, appVars, clocks>>

\* The handler sanitizes one parsed model response.
CallSanitize ==
  /\ call.fn = "none"
  /\ \E v \in JsonValues : \E f \in JsonValues : \E m \in JsonValues :
       \E t \in {JsonString("Wild Gambit"), JsonOther("undefined")} :
       \E parsed \in {[volatility |-> v, focus |-> f, momentum |-> m,
                        label |-> t, narrative |-> t]} :
         call' = [fn |-> "sanitize", arg |-> parsed,
                  result |-> sanitize(parsed, <<113, 117, 105, 116>>)]
  /\ UNCHANGED <<hookVars, loadVars, appVars, clocks>>

BoundaryInit ==
  /\ HookInit
  /\ lut = LutFilled
  /\ orbit = DEFAULT_INITIAL
  /\ orbitSteps = 0
  /\ call = NoCall
  /\ StoreInit
  /\ ClockInit

BoundaryNext ==
  \/ CallScoresToParams
  \/ CallSanitize
  \/ CallMockLLMAnalysis

BoundarySpec == BoundaryInit /\ [][BoundaryNext]_vars
\* ------------------------------------------------------------------------
\* ------------------------------------------------------------------------
\* The store (epsilonStore.ts)
\* ------------------------------------------------------------------------

\* submit calls that start an analysis in one run.
MaxSubmits == 2

\* What the user types into the two inputs.
StoreTexts == {TextEmpty, TextBlank, TextGoPadded}

\* The colors getComparisonColor may return for an attractor of a
\* comparison.
ComparisonColors == {NEON_VIOLET, NEON_ORANGE}

\* setInputA
SetInputA(v) ==
  /\ inputA # v
  /\ inputA' = v
  /\ op' = "setInputA"
  /\ UNCHANGED <<phase, mode, inputB, attractors, transitionComplete,
                 pending, submits, latest, hookVars, loadVars, call, clocks,
                 engine>>

\* setInputB
SetInputB(v) ==
  /\ inputB # v
  /\ inputB' = v
  /\ op' = "setInputB"
  /\ UNCHANGED <<phase, mode, inputA, attractors, transitionComplete,
                 pending, submits, latest, hookVars, loadVars, call, clocks,
                 engine>>

\* The inputs submit passes on: both trimmed, the second only if it is not
\* blank.
SubmitInputs ==
  IF Len(Trim(inputB)) > 0 THEN <<Trim(inputA), Trim(inputB)>>
  ELSE <<Trim(inputA)>>

\* submit without the return at an empty first input.
SubmitNoEarlyReturn ==
  /\ submits < MaxSubmits
  /\ op' = "submit"
  /\ phase' = "loading"
  /\ mode' = (IF Len(SubmitInputs) = 2 THEN "comparison" ELSE "single")
  /\ transitionComplete' = FALSE
  /\ pending' = pending \cup
       {[id |-> submits + 1, inputs |-> SubmitInputs,
         mode |-> (IF Len(SubmitInputs) = 2 THEN "comparison" ELSE "single")]}
  /\ submits' = submits + 1
  /\ latest' = SubmitInputs
  /\ UNCHANGED <<inputA, inputB, attractors>>
  /\ UNCHANGED <<hookVars, loadVars, call, clocks,
                 engine>>

\* submit that leaves transitionComplete as it is.
SubmitStoreKeepsComplete ==
  /\ submits < MaxSubmits
  /\ op' = "submit"
  /\ IF Len(SubmitInputs[1]) = 0
     THEN UNCHANGED <<storeVars, pending, submits, latest>>
     ELSE /\ phase' = "loading"
          /\ mode' = (IF Len(SubmitInputs) = 2 THEN "comparison" ELSE "single")
          /\ pending' = pending \cup
               {[id |-> submits + 1, inputs |-> SubmitInputs,
                 mode |-> (IF Len(SubmitInputs) = 2 THEN "comparison" ELSE "single")]}
          /\ submits' = submits + 1
          /\ latest' = SubmitInputs
          /\ UNCHANGED <<inputA, inputB, attractors, transitionComplete>>

\* submit, up to the await: nothing if the first input is empty, else the
\* store goes to loading and the analysis is under way.
SubmitStore ==
  /\ submits < MaxSubmits
  /\ op' = "submit"
  /\ IF Len(SubmitInputs[1]) = 0
     THEN UNCHANGED <<storeVars, pending, submits, latest>>
     ELSE /\ phase' = "loading"
          /\ mode' = (IF Len(SubmitInputs) = 2 THEN "comparison" ELSE "single")
          /\ transitionComplete' = FALSE
          /\ pending' = pending \cup
               {[id |-> submits + 1, inputs |-> SubmitInputs,
                 mode |-> (IF Len(SubmitInputs) = 2 THEN "comparison" ELSE "single")]}
          /\ submits' = submits + 1
          /\ latest' = SubmitInputs
          /\ UNCHANGED <<inputA, inputB, attractors>>

\* submit called on the store alone.
Submit == SubmitStore /\ UNCHANGED <<hookVars, loadVars, call, clocks, engine>>

\* The resolution without the phase of line 79.
AnalysisResolvedStaysLoading(p) ==
  /\ p \in pending
  /\ pending' = pending \ {p}
  /\ \E analyses \in {mockLLMAnalysis(p.inputs)} :
       attractors' = [n \in 1..Len(analyses) |->
                        [targetParams |-> scoresToParams(analyses[n]),
                         targetColor  |-> volatilityToColor(analyses[n].volatility),
                         analysis     |-> analyses[n]]]
  /\ op' = "resolved"
  /\ UNCHANGED <<phase, mode, inputA, inputB, transitionComplete, submits,
                 latest, hookVars, loadVars, call, clocks,
                 engine>>

\* submit, after the await: the analysis of a pending submit resolved.
AnalysisResolvedStore(p) ==
  /\ p \in pending
  /\ pending' = pending \ {p}
  /\ \E analyses \in {mockLLMAnalysis(p.inputs)} :
     \E colors \in (IF p.mode = "comparison"
                    THEN [1..Len(analyses) -> ComparisonColors]
                    ELSE {[n \in 1..Len(analyses) |->
                             volatilityToColor(analyses[n].volatility)]}) :
       attractors' = [n \in 1..Len(analyses) |->
                        [targetParams |-> scoresToParams(analyses[n]),
                         targetColor  |-> colors[n],
                         analysis     |-> analyses[n]]]
  /\ phase' = "visualizing"
  /\ op' = "resolved"
  /\ UNCHANGED <<mode, inputA, inputB, transitionComplete, submits, latest>>

\* The resolution on the store alone.
AnalysisResolved(p) ==
  /\ AnalysisResolvedStore(p)
  /\ UNCHANGED <<hookVars, loadVars, call, clocks, engine>>

\* onTransitionComplete, which the scene hands to the hook of a running
\* visualization.
OnTransitionComplete ==
  /\ phase = "visualizing"
  /\ ~transitionComplete
  /\ transitionComplete' = TRUE
  /\ op' = "onTransitionComplete"
  /\ UNCHANGED <<phase, mode, inputA, inputB, attractors, pending, submits,
                 latest, hookVars, loadVars, call, clocks,
                 engine>>

\* reset
ResetStore ==
  /\ phase' = "idle"
  /\ mode' = "single"
  /\ inputA' = <<>>
  /\ inputB' = <<>>
  /\ attractors' = <<>>
  /\ transitionComplete' = FALSE
  /\ op' = "reset"
  /\ UNCHANGED <<pending, submits, latest>>

\* reset called on the store alone.
Reset == ResetStore /\ UNCHANGED <<hookVars, loadVars, call, clocks, engine>>

StoreNext ==
  \/ \E v \in StoreTexts : SetInputA(v)
  \/ \E v \in StoreTexts : SetInputB(v)
  \/ Submit
  \/ \E p \in pending : AnalysisResolved(p)
  \/ OnTransitionComplete
  \/ Reset

StoreSpec == Init /\ [][StoreNext]_vars

\* ------------------------------------------------------------------------
\* The store with an analysis that may fail
\*
\* mockLLMAnalysis waits for a timer and maps the inputs; it does not
\* reject. submit is written for a promise that may: its catch puts the
\* store back to idle. Here the awaited analysis settles either way, and
\* every pending one is settled in the end, as a timer that was set fires.
\* ------------------------------------------------------------------------

\* submit, after the await: the analysis of a pending submit failed.
AnalysisRejected(p) ==
  /\ p \in pending
  /\ pending' = pending \ {p}
  /\ phase' = "idle"
  /\ attractors' = <<>>
  /\ op' = "rejected"
  /\ UNCHANGED <<mode, inputA, inputB, transitionComplete, submits, latest,
                 hookVars, loadVars, call, clocks,
                 engine>>

\* A pending analysis settles.
AnalysisSettled == \E p \in pending : AnalysisRejected(p) \/ AnalysisResolved(p)

SettleNext ==
  \/ \E v \in StoreTexts : SetInputA(v)
  \/ \E v \in StoreTexts : SetInputB(v)
  \/ Submit
  \/ \E p \in pending : AnalysisResolved(p)
  \/ \E p \in pending : AnalysisRejected(p)
  \/ OnTransitionComplete
  \/ Reset

SettleSpec == Init /\ [][SettleNext]_vars /\ WF_vars(AnalysisSettled)

\* ------------------------------------------------------------------------
\* The store and the engine of the first attractor together
\*
\* PhaseSpaceCanvas renders the canvas only while the store is visualizing.
\* Scene hands the hook the first attractor, active = (phase is visualizing)
\* and the store's onTransitionComplete. A change of the store is rendered
\* before the render loop calls the frame callback again, so each store
\* operation is one step with the mounting or unmounting it causes. Of the
\* hook, engine keeps what decides the completion: the active prop, the
\* clock, the visible count and the flag.
\* ------------------------------------------------------------------------

\* Frame deltas of the render loop: 1/6 s and 3.75 s.
AppDeltas == {1000, 22500}

\* The hook once Scene has mounted it, or re-rendered it with new target
\* objects, and its reset effect has run.
EngineMounted(isActive) ==
  [mounted |-> TRUE, active |-> isActive, elapsedSeconds |-> 0,
   visibleCount |-> 0, hasCalledComplete |-> FALSE, frames |-> 0,
   completed |-> FALSE]

\* The frame callback on the clock, the visible count and the completion
\* flag; completed tells whether it called onTransitionComplete.
EngineFrame(e, delta) ==
  IF FrameSkipped(e.active)
  THEN [e EXCEPT !.frames = @ + 1, !.completed = FALSE]
  ELSE LET elapsed == AdvanceClock(e.elapsedSeconds, delta)
           visible == Min2(e.visibleCount + Substeps(delta), TRAIL_LENGTH)
           fires   == visible # 0 /\ CompletionDue(e.hasCalledComplete, elapsed)
       IN  [e EXCEPT !.elapsedSeconds = elapsed,
                     !.visibleCount = visible,
                     !.hasCalledComplete = @ \/ fires,
                     !.frames = @ + 1,
                     !.completed = fires]

\* submit: a submit that starts an analysis takes the canvas away, one that
\* returns at once leaves the scene as it is.
AppSubmit ==
  /\ SubmitStore
  /\ engine' = (IF Len(SubmitInputs[1]) = 0 THEN engine ELSE NoEngine)
  /\ UNCHANGED <<hookVars, loadVars, call, clocks>>

\* An analysis resolves: the canvas is rendered with the new attractors.
AppResolved(p) ==
  /\ AnalysisResolvedStore(p)
  /\ engine' = EngineMounted(phase' = "visualizing")
  /\ UNCHANGED <<hookVars, loadVars, call, clocks>>

\* reset takes the canvas away.
AppReset ==
  /\ ResetStore
  /\ engine' = NoEngine
  /\ UNCHANGED <<hookVars, loadVars, call, clocks>>

\* The render loop calls the frame callback of the mounted hook, which
\* calls the store's onTransitionComplete when the transition is complete.
AppFrame(delta) ==
  /\ engine.mounted
  /\ engine.frames < MaxFrames
  /\ \E e \in {EngineFrame(engine, delta)} :
       /\ engine' = e
       /\ IF e.completed
          THEN /\ transitionComplete' = TRUE
               /\ op' = "onTransitionComplete"
          ELSE UNCHANGED <<transitionComplete, op>>
  /\ UNCHANGED <<phase, mode, inputA, inputB, attractors, pending, submits,
                 latest, hookVars, loadVars, call, clocks>>

\* The store just created, no canvas; the free-standing hook of the other
\* specifications is left inactive.
AppInit == Init /\ ~active

AppNext ==
  \/ \E v \in StoreTexts : SetInputA(v)
  \/ \E v \in StoreTexts : SetInputB(v)
  \/ AppSubmit
  \/ \E p \in pending : AppResolved(p)
  \/ AppReset
  \/ \E delta \in AppDeltas : AppFrame(delta)

AppSpec == AppInit /\ [][AppNext]_vars

\* ------------------------------------------------------------------------
\* The frame clock in double precision
\*
\* elapsedSeconds and delta are IEEE 754 doubles.  A non-negative double that
\* is a whole multiple of 2^-56 and below 2^6 stands here as the whole number
\* d * 2^56, written in three limbs <<h, m, l>> = h * 2^40 + m * 2^20 + l
\* with m, l < 2^20.  Such a number is a double when it has at most 53
\* significant bits.
\* ------------------------------------------------------------------------

\* Frame-callback invocations per session explored in one run.
MaxClockCalls == 3

Limb == 2 ^ 20

\* 0.1 = 7205759403792794 * 2^-56
DoubleTenth == <<6553, 629145, 629146>>

\* 7.3 = 526020436476873920 * 2^-56
DoubleSevenPointThree == <<478412, 838860, 838848>>

\* 2.5
DoubleTwoAndHalf == <<163840, 0, 0>>

\* COMPLETE_SECONDS = 1.5 + 5.0 + 1.0 = 7.5
COMPLETE_SECONDS_DOUBLE == <<491520, 0, 0>>

\* Frame deltas of the clock sessions.
ClockDeltas == {DoubleTenth, DoubleSevenPointThree, DoubleTwoAndHalf}

\* x + y without rounding.
AddExact(x, y) ==
  LET l == x[3] + y[3]
      m == x[2] + y[2] + (l \div Limb)
      h == x[1] + y[1] + (m \div Limb)
  IN  <<h, m % Limb, l % Limb>>

\* x >= y
GeqDouble(x, y) ==
  \/ x[1] > y[1]
  \/ x[1] = y[1] /\ x[2] > y[2]
  \/ x[1] = y[1] /\ x[2] = y[2] /\ x[3] >= y[3]

\* Bits of the top limb.
BitLen(h) == CHOOSE k \in 0..30 : h < 2 ^ k /\ (k = 0 \/ h >= 2 ^ (k - 1))

\* The spacing of the doubles around x, in units of 2^-56: 2^(bits - 53).
Ulp(x) == IF BitLen(x[1]) > 13 THEN 2 ^ (BitLen(x[1]) - 13) ELSE 1

\* Rounding towards zero in place of rounding to nearest.
RoundToDoubleTruncates(x) == <<x[1], x[2], x[3] - (x[3] % Ulp(x))>>

\* The double nearest to x, the one with the even mantissa on a tie.
RoundToDouble(x) ==
  LET q    == Ulp(x)
      r    == x[3] % q
      down == <<x[1], x[2], x[3] - r>>
      up   == \/ 2 * r > q
              \/ 2 * r = q /\ (x[3] \div q) % 2 = 1
  IN  IF up THEN AddExact(down, <<0, 0, q>>) ELSE down

\* x + y as the processor computes it.
AddDouble(x, y) == RoundToDouble(AddExact(x, y))

\* The clock part of the frame callback in session s: the elapsed time
\* advances by delta and completion is relayed once the threshold is reached.
ClockFrame(s, delta) ==
  /\ clocks[s].calls < MaxClockCalls
  /\ \E elapsed \in {AddDouble(clocks[s].elapsedSeconds, delta)} :
       clocks' = [clocks EXCEPT ![s] =
         [elapsedSeconds    |-> elapsed,
          total             |-> AddExact(@.total, delta),
          hasCalledComplete |-> \/ @.hasCalledComplete
                                \/ GeqDouble(elapsed, COMPLETE_SECONDS_DOUBLE),
          calls             |-> @.calls + 1]]
  /\ UNCHANGED <<hookVars, loadVars, call, appVars>>

ClockNext == \E s \in Sessions : \E delta \in ClockDeltas : ClockFrame(s, delta)

ClockSpec == Init /\ [][ClockNext]_vars

\* ------------------------------------------------------------------------
\* Properties
\* ------------------------------------------------------------------------

\* Every cell of a buffer of triples is a finite number.
AllFinite(buf) == \A i \in Slots : \A c \in 1..3 : IsFinite(buf[i][c])

\* The simulation state a fresh mount has.
Fresh ==
  /\ pos = DEFAULT_INITIAL
  /\ elapsedSeconds = 0
  /\ hasCalledComplete = FALSE
  /\ writeIndex = 0
  /\ visibleCount = 0
  /\ drawRange = 0
  /\ rawPosBuf = ZeroBuf
  /\ rawColorBuf = ZeroBuf
  /\ displayPosBuf = ZeroBuf
  /\ displayColorBuf = ZeroBuf

\* C1: after k writes the displayed window (drawRange entries of the display
\* buffers) holds exactly the last min(k, TRAIL_LENGTH) samples handed to a
\* write, oldest first and newest last, also after the write index wrapped:
\* each position as its Float32 cells hold it, each color dimmed by the
\* brightness of its place in the window.
C1_SnapshotOrder ==
  /\ drawRange = Min2(nwrites, TRAIL_LENGTH)
  /\ Len(written) = drawRange
  /\ \A i \in 1..drawRange :
       /\ displayPosBuf[i - 1] = StoreVec(written[i].pos)
       /\ displayColorBuf[i - 1] =
            Lit(StoreColor(written[i].color),
                brightnessLUT(TRAIL_LENGTH - drawRange + i - 1))

\* C1 witness: the ring has wrapped to the middle of the buffer over several
\* frames and the displayed positions are pairwise distinct finite samples.
C1_Witness ==
  /\ nwrites > TRAIL_LENGTH
  /\ nwrites > frame.substeps
  /\ frame.ran
  /\ writeIndex # 0
  /\ AllFinite(displayPosBuf)
  /\ Cardinality({displayPosBuf[i] : i \in Slots}) = TRAIL_LENGTH

\* C2: visibleCount is min(writes so far, TRAIL_LENGTH): never above the
\* capacity, and equal to it after every write from the TRAIL_LENGTH-th on.
C2_VisibleCount ==
  /\ visibleCount = Min2(nwrites, TRAIL_LENGTH)
  /\ visibleCount <= TRAIL_LENGTH

\* C2 witness: a frame wrote into a buffer that was already full.
C2_Witness ==
  /\ frame.ran
  /\ nwrites - frame.substeps >= TRAIL_LENGTH
  /\ visibleCount = TRAIL_LENGTH

\* C3: in a session onTransitionComplete has been called once if the elapsed
\* time has reached COMPLETE_SECONDS and never otherwise: no call before the
\* threshold, one at the frame that reaches it, none on any later frame.
C3_CompletionOnce ==
  /\ completions = (IF elapsedSeconds >= COMPLETE_SECONDS THEN 1 ELSE 0)
  /\ hasCalledComplete = (completions = 1)
  /\ frame.completed => elapsedSeconds - frame.delta < COMPLETE_SECONDS

\* C3 witness: a frame ran after the one that relayed completion and relayed
\* nothing.
C3_Witness ==
  /\ frame.ran
  /\ ~frame.completed
  /\ completions = 1
  /\ elapsedSeconds - frame.delta >= COMPLETE_SECONDS

\* n / d as a number, for a whole number n of either sign and d > 0.
SignedRatio(n, d) == IF n < 0 THEN 0 - FRatio[0 - n, d] ELSE FRatio[n, d]

\* clamp((elapsed - 1.5) / 5.0, 0, 1)
ClampedProgress(elapsed) ==
  Max2(0, Min2(Unit, SignedRatio(elapsed - WARMUP_SECONDS, TRANSITION_SECONDS)))

\* C4: the factor computed by a frame is clamp((elapsed - 1.5) / 5.0, 0, 1)
\* of the elapsed time it leaves: 0 up to 1.5 s, 1 from 6.5 s on, and from
\* one frame to the next within the transition it strictly increases with
\* the elapsed time.
C4_Factor ==
  /\ [](frame.ran =>
          /\ frame.lerpT = ClampedProgress(elapsedSeconds)
          /\ elapsedSeconds <= WARMUP_SECONDS => frame.lerpT = 0
          /\ elapsedSeconds >= WARMUP_SECONDS + TRANSITION_SECONDS
               => frame.lerpT = Unit
          /\ (/\ elapsedSeconds > WARMUP_SECONDS
              /\ elapsedSeconds < WARMUP_SECONDS + TRANSITION_SECONDS)
               => (0 < frame.lerpT /\ frame.lerpT < Unit))
  /\ [][(/\ frame.ran
         /\ frame'.ran
         /\ WARMUP_SECONDS < elapsedSeconds
         /\ elapsedSeconds < elapsedSeconds'
         /\ elapsedSeconds' < WARMUP_SECONDS + TRANSITION_SECONDS)
        => frame.lerpT < frame'.lerpT]_vars

\* C4 witness: two frames in a row ended inside the transition, the second
\* later than the first.
C4_Witness ==
  /\ frame.ran
  /\ frame.delta > 0
  /\ elapsedSeconds - frame.delta > WARMUP_SECONDS
  /\ elapsedSeconds < WARMUP_SECONDS + TRANSITION_SECONDS
  /\ nwrites > frame.substeps

\* C5: the samples written by a frame that ran number
\* round(delta / (1/60) * 8) clamped to [1, 32], a function of that frame's
\* delta alone: r below is the whole number within half of delta * 8 / (1/60)
\* (the upper one on a tie).
C5_Substeps ==
  frame.ran =>
    /\ \E r \in 0..((frame.delta * STEPS_PER_FRAME) \div REFERENCE_FRAME_SECONDS + 1) :
         /\ 2 * (r * REFERENCE_FRAME_SECONDS - frame.delta * STEPS_PER_FRAME)
              <= REFERENCE_FRAME_SECONDS
         /\ 2 * (frame.delta * STEPS_PER_FRAME - r * REFERENCE_FRAME_SECONDS)
              < REFERENCE_FRAME_SECONDS
         /\ frame.substeps = Max2(1, Min2(r, 4 * STEPS_PER_FRAME))
    /\ frame.delta = REFERENCE_FRAME_SECONDS => frame.substeps = STEPS_PER_FRAME
    /\ frame.delta = 10 * REFERENCE_FRAME_SECONDS
         => frame.substeps = 4 * STEPS_PER_FRAME

\* C5 witness: a frame of ten reference frames ran its clamped 32 substeps.
C5_Witness ==
  /\ frame.ran
  /\ frame.delta = 10 * REFERENCE_FRAME_SECONDS
  /\ frame.substeps = 4 * STEPS_PER_FRAME
  /\ nwrites >= frame.substeps

\* C6: a change of target to parameters that are not all positive is
\* refused and leaves the simulation state of the running session as it was.
C6_ConfigureRefusesInvalid ==
  [][(configures' = configures + 1 /\ ~ValidParams(targetParams'))
       => UNCHANGED simVars]_vars

\* C7: no cell of the raw or display position buffers ever holds a
\* non-finite value.
C7_NoNonFiniteStored ==
  /\ AllFinite(rawPosBuf)
  /\ AllFinite(displayPosBuf)

\* C8: a frame callback invoked while inactive changes nothing of the
\* simulation state and relays no completion, and flipping active changes
\* nothing either, so a resumed session continues from the paused state.
C8_InactiveNoOp ==
  [][/\ (~active /\ frames' = frames + 1)
          => (UNCHANGED simVars /\ ~frame'.completed /\ UNCHANGED histVars)
     /\ (active' # active) => UNCHANGED <<simVars, histVars>>]_vars

\* C8 witness: the most recent frame callback of a session that holds
\* samples was skipped.
C8_Witness ==
  /\ ~active
  /\ frame = NoFrame
  /\ nwrites > 0
  /\ elapsedSeconds > 0

\* C9: until the first frame runs after a change of target, the simulation
\* state is the fresh one: position (1, 1, 1), elapsed 0, completion flag
\* down, write index and counts 0, every raw and display cell 0.
C9_FreshAfterConfigure == (nwrites = 0) => Fresh

\* C9 witness: the target changed after a session that had wrapped the ring
\* and relayed completion.
C9_Witness ==
  /\ configures > 0
  /\ nwrites = 0
  /\ prior.writes > TRAIL_LENGTH
  /\ prior.completed

\* C10: rebuilding the display from the state a frame left changes nothing:
\* not the raw buffers, the write index, the count or the position, and the
\* display it produces is the one already there.
C10_RebuildIsPure == (visibleCount > 0) => (RebuildDisplay(Sim) = Sim)

\* C10 witness: a wrapped ring whose window has been rebuilt with colors of
\* more than one brightness.
C10_Witness ==
  /\ visibleCount = TRAIL_LENGTH
  /\ writeIndex # 0
  /\ displayColorBuf[0] # displayColorBuf[TRAIL_LENGTH - 1]
  /\ rawColorBuf[0] = rawColorBuf[TRAIL_LENGTH - 1]

\* C11: a frame that ran relayed completion exactly when it is the one that
\* brought the elapsed time from below 7.5 s to 7.5 s or more; a frame that
\* leaves the elapsed time below 7.5 s never relays it.
C11_CompletionAtThreshold ==
  frame.ran =>
    /\ frame.completed <=>
         (/\ elapsedSeconds >= WARMUP_SECONDS + TRANSITION_SECONDS + SETTLE_SECONDS
          /\ elapsedSeconds - frame.delta
               < WARMUP_SECONDS + TRANSITION_SECONDS + SETTLE_SECONDS)
    /\ elapsedSeconds < 45 * (TicksPerSecond \div 6) => ~frame.completed

\* C11 witness: a frame relayed completion on reaching 7.5 s exactly.
C11_Witness ==
  /\ frame.ran
  /\ frame.completed
  /\ elapsedSeconds = 45 * (TicksPerSecond \div 6)
  /\ frame.delta > 0

\* The scheduler phase an elapsed time lies in: 0 Warmup (up to 1.5 s),
\* 1 Transition (up to 6.5 s), 2 Settle (up to 7.5 s), 3 Complete.
PhaseRank(elapsed) ==
  IF elapsed <= WARMUP_SECONDS THEN 0
  ELSE IF elapsed < WARMUP_SECONDS + TRANSITION_SECONDS THEN 1
  ELSE IF elapsed < COMPLETE_SECONDS THEN 2
  ELSE 3

\* C12 as stated: from one frame callback to the next the phase stays or
\* moves to the immediately following phase.
C12_NoPhaseSkipped ==
  [][(configures' = configures)
       => PhaseRank(elapsedSeconds') \in
            {PhaseRank(elapsedSeconds), PhaseRank(elapsedSeconds) + 1}]_vars

\* C12 amended: within a session the phase never moves back to an earlier
\* one (it may move forward by more than one phase in a single frame), and
\* a change of target returns it to Warmup.
C12_PhaseNeverRevisited ==
  [][/\ (configures' = configures)
          => PhaseRank(elapsedSeconds') >= PhaseRank(elapsedSeconds)
     /\ (configures' # configures) => PhaseRank(elapsedSeconds') = 0]_vars

\* C12 witness: a frame took the session from Transition straight to
\* Complete.
C12_Witness ==
  /\ frame.ran
  /\ PhaseRank(elapsedSeconds - frame.delta) = 1
  /\ PhaseRank(elapsedSeconds) = 3

\* C13: no step other than a change of target lowers the elapsed time, and
\* a change of target sets it to 0.
C13_ElapsedMonotone ==
  [][/\ (configures' = configures) => elapsedSeconds' >= elapsedSeconds
     /\ (configures' # configures) => elapsedSeconds' = 0]_vars

\* C13 witness: three frames of positive delta have advanced the clock of
\* one session.
C13_Witness ==
  /\ frame.ran
  /\ frames = MaxFrames
  /\ elapsedSeconds > 2 * frame.delta
  /\ frame.delta > 0

\* Every channel of every cell of a color buffer is a number in [0, 1].
InUnitRange(buf) ==
  \A i \in Slots : \A c \in 1..3 : 0 <= buf[i][c] /\ buf[i][c] <= Unit

\* C14: the start and target colors having their channels in [0, 1], every
\* channel of the raw color buffer and of the displayed colors (raw color
\* times brightness) is in [0, 1].
C14_ColorsInRange ==
  (/\ \A c \in {startColor.r, startColor.g, startColor.b} : 0 <= c /\ c <= Unit
   /\ \A c \in {targetColor.r, targetColor.g, targetColor.b} : 0 <= c /\ c <= Unit)
    => (InUnitRange(rawColorBuf) /\ InUnitRange(displayColorBuf))

\* C14 witness: the full ring holds colors written during and after the
\* transition, one raw channel at 1, and a displayed channel strictly
\* between 0 and 1.
C14_Witness ==
  /\ visibleCount = TRAIL_LENGTH
  /\ frame.ran
  /\ frame.lerpT = Unit
  /\ \E i \in Slots : rawColorBuf[i] = StoreColor(targetColor)
  /\ \E i \in Slots : \E c \in 1..3 : rawColorBuf[i][c] = Unit
  /\ \E i \in Slots : \E c \in 1..3 :
        0 < displayColorBuf[i][c] /\ displayColorBuf[i][c] < Unit

\* The distance, times (TRAIL_LENGTH - 1)^2, between a brightness b and
\* 0.02 + 0.98 * (i / (TRAIL_LENGTH - 1))^2.
EaseInGap(i, b) ==
  Abs(b * (TRAIL_LENGTH - 1) * (TRAIL_LENGTH - 1)
        - ((2 * Unit) \div 100) * (TRAIL_LENGTH - 1) * (TRAIL_LENGTH - 1)
        - ((98 * Unit) \div 100) * i * i)

\* C15 as stated: every entry of the table equals
\* 0.02 + 0.98 * (i / (N - 1))^2, the first is 0.02, the last is 1, the
\* entries never decrease and all lie in [0.02, 1].
C15_LutExact ==
  /\ \A n \in 1..Len(lut) : EaseInGap(n - 1, lut[n]) = 0
  /\ Len(lut) >= 1 => lut[1] = (2 * Unit) \div 100
  /\ Len(lut) = TRAIL_LENGTH => lut[TRAIL_LENGTH] = Unit
  /\ \A m \in 1..Len(lut) : \A n \in 1..Len(lut) : m <= n => lut[m] <= lut[n]
  /\ \A n \in 1..Len(lut) : (2 * Unit) \div 100 <= lut[n] /\ lut[n] <= Unit

\* C15 amended: every entry is 0.02 + 0.98 * (i / (N - 1))^2 as a Float32
\* cell holds it (within the cell's precision of that value), the first is
\* the stored 0.02, the last is 1, the entries never decrease and all lie
\* between the stored 0.02 and 1.
C15_LutShape ==
  /\ \A n \in 1..Len(lut) :
        EaseInGap(n - 1, lut[n])
          <= F32Grid * (TRAIL_LENGTH - 1) * (TRAIL_LENGTH - 1)
  /\ Len(lut) >= 1 => lut[1] = Fround[(2 * Unit) \div 100]
  /\ Len(lut) = TRAIL_LENGTH => lut[TRAIL_LENGTH] = Unit
  /\ \A m \in 1..Len(lut) : \A n \in 1..Len(lut) : m <= n => lut[m] <= lut[n]
  /\ \A n \in 1..Len(lut) :
        Fround[(2 * Unit) \div 100] <= lut[n] /\ lut[n] <= Unit

\* C15 witness: the table is filled and an entry differs from the unrounded
\* value.
C15_Witness ==
  /\ Len(lut) = TRAIL_LENGTH
  /\ \E n \in 1..Len(lut) : EaseInGap(n - 1, lut[n]) # 0

\* C20: every coordinate of every state of the status-quo run from
\* (1, 1, 1) is below 60 in absolute value.
C20_OrbitBounded ==
  /\ IsFinite(orbit.x) /\ IsFinite(orbit.y) /\ IsFinite(orbit.z)
  /\ Abs(orbit.x) < 60 * Unit
  /\ Abs(orbit.y) < 60 * Unit
  /\ Abs(orbit.z) < 60 * Unit

\* C20 witness: the run has reached its last step, away from where it
\* started.
C20_Witness ==
  /\ orbitSteps = MaxOrbitSteps
  /\ orbit # DEFAULT_INITIAL
  /\ Abs(orbit.z) > 10 * Unit

\* A score clamped to [0, 100].
ClampedScore(score) ==
  IF score < 0 THEN 0 ELSE IF score > 100 * Unit THEN 100 * Unit ELSE score

\* C16: whatever the scores, sigma = 6 + 10 * clamp(focus) / 100 is in
\* [6, 16], rho = 26 + 22 * clamp(volatility) / 100 is in [26, 48] and
\* beta = 1.5 + 3 * clamp(momentum) / 100 is in [1.5, 4.5]; all three are
\* positive and rho is at least 26, above the status-quo rho.
C16_ScoresToParams ==
  call.fn = "scoresToParams" =>
    /\ 100 * (call.result.sigma - 6 * Unit) = 10 * ClampedScore(call.arg.focus)
    /\ 100 * (call.result.rho - 26 * Unit) = 22 * ClampedScore(call.arg.volatility)
    /\ 1000 * call.result.beta - 1500 * Unit = 30 * ClampedScore(call.arg.momentum)
    /\ 6 * Unit <= call.result.sigma /\ call.result.sigma <= 16 * Unit
    /\ 26 * Unit <= call.result.rho /\ call.result.rho <= 48 * Unit
    /\ 15 * Unit <= 10 * call.result.beta /\ 10 * call.result.beta <= 45 * Unit
    /\ ValidParams(call.result)
    /\ call.result.rho > STATUS_QUO_PARAMS.rho

\* C16 witness: scores below 0, above 100 and fractional were mapped.
C16_Witness ==
  /\ call.fn = "scoresToParams"
  /\ call.arg.focus < 0
  /\ call.arg.volatility > 100 * Unit
  /\ call.arg.momentum = (995 * Unit) \div 10
  /\ call.result.sigma = 6 * Unit
  /\ call.result.rho = 48 * Unit

\* A whole number of the range 0..100.
IsScoreInteger(n) == n % Unit = 0 /\ 0 <= n /\ n <= 100 * Unit

\* What the claim expects of a sanitized score: a finite number rounded and
\* clamped, anything else 50.
ExpectedAsStated(v) ==
  IF v.kind = "number" /\ IsFinite(v.val)
  THEN ClampedScore(((v.val + Unit \div 2) \div Unit) * Unit)
  ELSE 50 * Unit

\* What a sanitized score is: as stated for numbers, for absent fields,
\* objects and strings that are not numerals; null and the empty string
\* give 0, true gives 1 and the string "75" gives 75.
ExpectedAmended(v) ==
  CASE v.kind = "null" -> 0
    [] v.kind = "true" -> Unit
    [] v.kind = "string" /\ v.text = "" -> 0
    [] v.kind = "string" /\ v.text = "75" -> 75 * Unit
    [] OTHER -> ExpectedAsStated(v)

\* C18 as stated: every score of a sanitized record is an integer of
\* [0, 100]: the rounded and clamped number, and 50 for whatever is
\* missing, not a number or not finite.
C18_SanitizeAsStated ==
  call.fn = "sanitize" =>
    /\ IsScoreInteger(call.result.volatility)
    /\ IsScoreInteger(call.result.focus)
    /\ IsScoreInteger(call.result.momentum)
    /\ call.result.volatility = ExpectedAsStated(call.arg.volatility)
    /\ call.result.focus = ExpectedAsStated(call.arg.focus)
    /\ call.result.momentum = ExpectedAsStated(call.arg.momentum)

\* C18 amended: every score of a sanitized record is an integer of
\* [0, 100]: the rounded and clamped number for a finite number, 50 for a
\* value that Number() turns into NaN or an infinity, and the rounded and
\* clamped Number() of the value otherwise (0 for null and "", 1 for true).
C18_Sanitize ==
  call.fn = "sanitize" =>
    /\ IsScoreInteger(call.result.volatility)
    /\ IsScoreInteger(call.result.focus)
    /\ IsScoreInteger(call.result.momentum)
    /\ call.result.volatility = ExpectedAmended(call.arg.volatility)
    /\ call.result.focus = ExpectedAmended(call.arg.focus)
    /\ call.result.momentum = ExpectedAmended(call.arg.momentum)

\* C18 witness: a response with null, 250 and an absent field was
\* sanitized to 0, 100 and 50.
C18_Witness ==
  /\ call.fn = "sanitize"
  /\ call.arg.volatility.kind = "null"
  /\ call.arg.focus.kind = "number" /\ call.arg.focus.val = 250 * Unit
  /\ call.arg.momentum.kind = "undefined"
  /\ call.result.volatility = 0
  /\ call.result.focus = 100 * Unit
  /\ call.result.momentum = 50 * Unit

\* The trimmed, lower-cased form of each input text.
NormalForm(text) ==
  CASE text = TextGoPadded -> TextGo
    [] text = TextQuit ->
         <<113, 117, 105, 116, 32, 109, 121, 32, 106, 111, 98>>
    [] text = TextBlank -> TextEmpty
    [] OTHER -> text

\* C17: every score of every analysis the offline fallback returns is an
\* integer of [20, 90], also when the hash of the text has wrapped or is
\* the least 32-bit integer, and it is the score of the trimmed,
\* lower-cased text at that position.
C17_MockScores ==
  call.fn = "mockLLMAnalysis" =>
    \A n \in 1..Len(call.arg) :
      /\ \A v \in {call.result[n].volatility, call.result[n].focus,
                    call.result[n].momentum} :
            v % Unit = 0 /\ 20 * Unit <= v /\ v <= 90 * Unit
      /\ \E a \in {MockAnalysis(NormalForm(call.arg[n]), n - 1)} :
            /\ call.result[n].volatility = a.volatility
            /\ call.result[n].focus = a.focus
            /\ call.result[n].momentum = a.momentum

\* C17 witness: the text whose hash is the least 32-bit integer was
\* analysed in second position after the padded, capitalised " Go ", with
\* the scores the JavaScript arithmetic gives (45, 55, 65 and 79, 35, 71).
C17_Witness ==
  /\ call.fn = "mockLLMAnalysis"
  /\ call.arg = <<TextGoPadded, TextMinHash>>
  /\ HashLoop(TextMinHash, 1, 0) = (0 - (Half \div 2)) * Half
  /\ call.result[1].volatility = 45 * Unit
  /\ call.result[1].focus = 55 * Unit
  /\ call.result[1].momentum = 65 * Unit
  /\ call.result[2].volatility = 79 * Unit
  /\ call.result[2].focus = 35 * Unit
  /\ call.result[2].momentum = 71 * Unit

\* C19: the phase changes only from idle to loading by a submit, from
\* loading to visualizing by a resolved analysis, from loading to idle, and
\* from any phase to idle by reset; never from idle to visualizing.
C19_PhaseEdges ==
  [][(phase' # phase) =>
       \/ phase = "idle" /\ phase' = "loading" /\ op' = "submit"
       \/ phase = "loading" /\ phase' = "visualizing" /\ op' = "resolved"
       \/ phase = "loading" /\ phase' = "idle"
       \/ phase' = "idle" /\ op' = "reset"]_vars

\* C21: with v = visibleCount >= 1, the display color at logical position i
\* (0 <= i < v) is the raw color of that sample times entry N - v + i of the
\* brightness table; that index lies in [0, N-1]; the newest sample (the one
\* written last, just before writeIndex) gets entry N-1; and entry 0 is used
\* only when the buffer is full.
C21_BrightnessIndex ==
  (visibleCount >= 1) =>
    LET oldestIndex == IF visibleCount = TRAIL_LENGTH THEN writeIndex ELSE 0
        sample(i)   == rawColorBuf[(oldestIndex + i) % TRAIL_LENGTH]
    IN  /\ \A i \in 0..(visibleCount - 1) :
             /\ TRAIL_LENGTH - visibleCount + i \in Slots
             /\ displayColorBuf[i] =
                  Lit(sample(i), lut[TRAIL_LENGTH - visibleCount + i + 1])
             /\ (visibleCount < TRAIL_LENGTH) =>
                  displayColorBuf[i] # Lit(sample(i), lut[1])
        /\ displayColorBuf[visibleCount - 1] =
             Lit(rawColorBuf[(writeIndex + TRAIL_LENGTH - 1) % TRAIL_LENGTH],
                 lut[TRAIL_LENGTH])

\* C21 witness: a frame left a partly filled buffer of three samples, the
\* oldest displayed darker than the newest.
C21_Witness ==
  /\ frame.ran
  /\ visibleCount = 3
  /\ visibleCount < TRAIL_LENGTH
  /\ displayColorBuf[0] # displayColorBuf[2]
  /\ rawColorBuf[0] = rawColorBuf[2]

\* The ring slot of the i-th of the samples in written (1 = oldest kept).
SlotOf(i) ==
  (writeIndex + 2 * TRAIL_LENGTH - (Len(written) - i + 1)) % TRAIL_LENGTH

\* The samples in written that the most recent frame wrote.
LastFrameSamples ==
  IF frame.ran
  THEN {i \in 1..Len(written) : i > Len(written) - frame.substeps}
  ELSE {}

\* C22 as stated: the raw color stored with a sample is
\* lerp(startColor, targetColor, f) itself, f the factor of the frame that
\* wrote it, and stays so until the slot is overwritten.
C22_StampIsLerp ==
  /\ \A i \in 1..Len(written) :
       rawColorBuf[SlotOf(i)] =
         <<written[i].color.r, written[i].color.g, written[i].color.b>>
  /\ \A i \in LastFrameSamples :
       written[i].color = lerpColor(startColor, targetColor, frame.lerpT)

\* C22: the raw color stored with a sample is lerp(startColor, targetColor, f)
\* as a Float32 cell holds it, f the factor of the frame that wrote it, and
\* each of the last min(writes, N) samples still has the color it was
\* stamped with, whatever frames and rebuilds came after its write.
C22_StampKept ==
  /\ \A i \in 1..Len(written) :
       rawColorBuf[SlotOf(i)] = StoreColor(written[i].color)
  /\ \A i \in LastFrameSamples :
       written[i].color = lerpColor(startColor, targetColor, frame.lerpT)

\* C22 witness: a frame inside the transition overwrote part of a full ring,
\* which now holds stamps of two different factors.
C22_Witness ==
  /\ frame.ran
  /\ frame.lerpT > 0
  /\ frame.substeps < TRAIL_LENGTH
  /\ nwrites - frame.substeps >= TRAIL_LENGTH
  /\ rawColorBuf[writeIndex] # rawColorBuf[(writeIndex + TRAIL_LENGTH - 1) % TRAIL_LENGTH]

\* C23: a frame of k writes changes only the k raw slots from writeIndex on
\* (modulo N), each write going to the slot after the one before it, and
\* leaves writeIndex at (writeIndex + k) mod N; a frame of one write changes
\* the slot at writeIndex alone.  Every other slot keeps its position and
\* color: no stored sample is moved.
C23_WriteOneSlot ==
  [][(frames' = frames + 1 /\ frame'.ran) =>
       LET k   == frame'.substeps
           hit == {(writeIndex + i) % TRAIL_LENGTH : i \in 0..(k - 1)}
       IN  /\ k >= 1
           /\ writeIndex' = (writeIndex + k) % TRAIL_LENGTH
           /\ \A j \in Slots \ hit :
                /\ rawPosBuf'[j] = rawPosBuf[j]
                /\ rawColorBuf'[j] = rawColorBuf[j]
           /\ \A i \in 0..(Min2(k, TRAIL_LENGTH) - 1) :
                rawPosBuf'[(writeIndex + k + 2 * TRAIL_LENGTH - 1 - i) % TRAIL_LENGTH]
                  = StoreVec(written'[Len(written') - i].pos)
           /\ (k = 1) =>
                /\ hit = {writeIndex}
                /\ rawPosBuf'[writeIndex] = StoreVec(pos')]_vars

\* C23 witness: a frame of one write went into a full ring at a slot in its
\* middle and changed that slot.
C23_Witness ==
  /\ frame.ran
  /\ frame.substeps = 1
  /\ nwrites > TRAIL_LENGTH + 1
  /\ writeIndex > 1
  /\ writeIndex < TRAIL_LENGTH - 1
  /\ rawPosBuf[writeIndex - 1] = StoreVec(pos)
  /\ rawPosBuf[writeIndex - 1] # rawPosBuf[writeIndex]

\* C24: writeIndex is always in 0..N-1; while the buffer is not full
\* writeIndex equals visibleCount and the oldest sample is in slot 0; once it
\* is full the oldest sample kept is in the slot at writeIndex.
C24_WriteIndex ==
  /\ writeIndex \in Slots
  /\ (visibleCount < TRAIL_LENGTH) =>
       /\ writeIndex = visibleCount
       /\ (visibleCount >= 1) => rawPosBuf[0] = StoreVec(written[1].pos)
  /\ (visibleCount = TRAIL_LENGTH) =>
       rawPosBuf[writeIndex] = StoreVec(written[1].pos)

\* C24 witness: after a session that wrapped the ring the target changed and
\* the new session has written fewer samples than the ring holds.
C24_Witness ==
  /\ configures > 0
  /\ prior.writes > TRAIL_LENGTH
  /\ prior.writes % TRAIL_LENGTH # 0
  /\ frame.ran
  /\ visibleCount >= 1
  /\ visibleCount < TRAIL_LENGTH
  /\ rawPosBuf[0] # ZeroBuf[0]

RECURSIVE StepSeq(_, _, _)
\* <<step(p), step(step(p)), ...>>: the first n iterates of rk4Step under
\* params from p.
StepSeq(p, params, n) ==
  IF n = 0 THEN <<>>
  ELSE Let(rk4Step(p, params), LAMBDA q : <<q>> \o StepSeq(q, params, n - 1))

\* C25: a frame that runs n substeps uses one parameter set, the lerp at the
\* factor of the elapsed time it leaves, and applies the step n times in a
\* row: the k-th sample it hands to a write is the k-th iterate of the step
\* from the position the frame found, and the position it leaves is the
\* n-th.
C25_SubstepsInSequence ==
  [][(frames' = frames + 1 /\ frame'.ran) =>
       \E n \in {frame'.substeps} :
       \E params \in {lerpParams(STATUS_QUO_PARAMS, targetParams,
                                 ClampedProgress(elapsedSeconds'))} :
       \E seq \in {StepSeq(pos, params, n)} :
           /\ n >= 1
           /\ pos' = seq[n]
           /\ \A i \in 0..(Min2(n, TRAIL_LENGTH) - 1) :
                written'[Len(written') - i].pos = seq[n - i]]_vars

\* C25 witness: a frame of 32 substeps inside the transition left a ring of
\* pairwise distinct finite samples, the newest being the position it left.
C25_Witness ==
  /\ frame.ran
  /\ frame.substeps = 4 * STEPS_PER_FRAME
  /\ frame.lerpT > 0
  /\ frame.lerpT < Unit
  /\ AllFinite(rawPosBuf)
  /\ Cardinality({rawPosBuf[i] : i \in Slots}) = TRAIL_LENGTH
  /\ written[Len(written)].pos = pos

\* The factor of a frame that leaves elapsed is 0 (warm-up) or 1 (settled).
AtEndpoint(elapsed) ==
  elapsed <= WARMUP_SECONDS \/ elapsed >= WARMUP_SECONDS + TRANSITION_SECONDS

\* Each sample of written' that the frame just run wrote and that has its
\* predecessor at hand is the step under params of that predecessor (the
\* position the frame found, for the first of a frame that wrapped nothing
\* away), and was handed to the write with color.
FrameUsed(params, color) ==
  \E n \in {frame'.substeps} :
  \E len \in {Len(written')} :
    \A i \in 1..Min2(n, TRAIL_LENGTH) :
      \E j \in {len - Min2(n, TRAIL_LENGTH) + i} :
        /\ written'[j].color = color
        /\ (i = 1 /\ n <= TRAIL_LENGTH) =>
             written'[j].pos = rk4Step(pos, params)
        /\ (i > 1) => written'[j].pos = rk4Step(written'[j - 1].pos, params)

\* The raw colors of the slots the frame just run wrote.
FrameStamps ==
  {rawColorBuf'[(writeIndex' + 2 * TRAIL_LENGTH - i) % TRAIL_LENGTH] :
     i \in 1..Min2(frame'.substeps, TRAIL_LENGTH)}

\* C26 as stated: a frame that leaves elapsed <= 1.5 s integrates with the
\* status-quo parameters and stamps the start color itself; a frame that
\* leaves elapsed >= 6.5 s integrates with the target parameters and stamps
\* the target color itself.
C26_EndpointsExact ==
  [][(frames' = frames + 1 /\ frame'.ran /\ AtEndpoint(elapsedSeconds')) =>
       IF elapsedSeconds' <= WARMUP_SECONDS
       THEN /\ FrameUsed(STATUS_QUO_PARAMS, startColor)
            /\ FrameStamps = {<<startColor.r, startColor.g, startColor.b>>}
       ELSE /\ FrameUsed(targetParams, targetColor)
            /\ FrameStamps = {<<targetColor.r, targetColor.g, targetColor.b>>}]_vars

\* C26: a frame that leaves elapsed <= 1.5 s integrates with exactly the
\* status-quo parameters and hands exactly the start color to its writes; a
\* frame that leaves elapsed >= 6.5 s integrates with exactly the target
\* parameters and hands exactly the target color to its writes; the stamp
\* in the ring is that color as a Float32 cell holds it.
C26_Endpoints ==
  [][(frames' = frames + 1 /\ frame'.ran /\ AtEndpoint(elapsedSeconds')) =>
       IF elapsedSeconds' <= WARMUP_SECONDS
       THEN /\ FrameUsed(STATUS_QUO_PARAMS, startColor)
            /\ FrameStamps = {StoreColor(startColor)}
       ELSE /\ FrameUsed(targetParams, targetColor)
            /\ FrameStamps = {StoreColor(targetColor)}]_vars

\* C26 witness: a frame ended at or after 6.5 s with finite samples, stamped
\* with the target color as stored, which is not the target color itself.
C26_Witness ==
  /\ frame.ran
  /\ elapsedSeconds >= WARMUP_SECONDS + TRANSITION_SECONDS
  /\ frame.lerpT = Unit
  /\ AllFinite(rawPosBuf)
  /\ rawColorBuf[(writeIndex + TRAIL_LENGTH - 1) % TRAIL_LENGTH] = StoreColor(targetColor)
  /\ StoreColor(targetColor) # <<targetColor.r, targetColor.g, targetColor.b>>
  /\ targetParams # STATUS_QUO_PARAMS

RoundingBound(c) == <<0, 0, (c.calls * Ulp(c.elapsedSeconds)) \div 2>>

TwiceOff(n, delta) ==
  IF n * REFERENCE_FRAME_SECONDS >= delta * STEPS_PER_FRAME
  THEN 2 * (n * REFERENCE_FRAME_SECONDS - delta * STEPS_PER_FRAME)
  ELSE 2 * (delta * STEPS_PER_FRAME - n * REFERENCE_FRAME_SECONDS)

C29_NoEarlyReturn ==
  frame.ran =>
    /\ frame.substeps >= 1
    /\ visibleCount >= 1
    /\ drawRange = visibleCount
    /\ displayPosBuf[drawRange - 1] = StoreVec(pos)
    /\ (elapsedSeconds >= COMPLETE_SECONDS) => hasCalledComplete

\* C29 witness: the first frame of a session came with delta 0 and still
\* wrote one sample, which is displayed.
C29_Witness ==
  /\ frame.ran
  /\ frame.delta = 0
  /\ nwrites = 1
  /\ visibleCount = 1
  /\ drawRange = 1
  /\ displayPosBuf[0] # ZeroBuf[0]

\* The raw slot written last.
NewestSlot == (writeIndex + TRAIL_LENGTH - 1) % TRAIL_LENGTH

\* C30 as stated: once a frame has run in the session, the raw slot written
\* last and the last displayed entry hold the current position itself.
C30_NewestIsState ==
  (nwrites > 0) =>
    /\ rawPosBuf[NewestSlot] = <<pos.x, pos.y, pos.z>>
    /\ displayPosBuf[drawRange - 1] = <<pos.x, pos.y, pos.z>>

\* C30: once a frame has run in the session, the raw slot written last and
\* the last displayed entry hold the current position as Float32 cells hold
\* it; and the position changes only in a frame callback called while
\* active and at a change of target.
C30_NewestIsStoredState ==
  /\ []((nwrites > 0) =>
          /\ rawPosBuf[NewestSlot] = StoreVec(pos)
          /\ displayPosBuf[drawRange - 1] = StoreVec(pos))
  /\ [][(pos' # pos) =>
          \/ frames' = frames + 1 /\ active /\ frame'.ran
          \/ configures' = configures + 1]_vars

\* C30 witness: an inactive frame callback came after frames that wrapped the
\* ring; the newest slot holds the position rounded, which is not the
\* position.
C30_Witness ==
  /\ ~active
  /\ frame = NoFrame
  /\ frames > 1
  /\ nwrites > TRAIL_LENGTH
  /\ AllFinite(rawPosBuf)
  /\ rawPosBuf[NewestSlot] = StoreVec(pos)
  /\ rawPosBuf[NewestSlot] # <<pos.x, pos.y, pos.z>>

\* C31: a submit whose first input is empty after trimming changes nothing:
\* phase, mode, both inputs, attractors and transitionComplete stay as they
\* are and no analysis is started, whatever the second input is.
C31_EmptySubmitNoOp ==
  [][(op' = "submit" /\ Len(Trim(inputA)) = 0) =>
       /\ UNCHANGED <<phase, mode, inputA, inputB, attractors,
                      transitionComplete>>
       /\ pending' = pending
       /\ submits' = submits
       /\ latest' = latest]_vars

\* C31 witness: a submit was called during a visualization with a blank
\* first input and a second input that is not blank.
C31_Witness ==
  /\ op = "submit"
  /\ inputA = TextBlank
  /\ Len(Trim(inputB)) > 0
  /\ phase = "visualizing"
  /\ Len(attractors) > 0

\* C32: whenever the store is loading it leaves loading later on, given that
\* a pending analysis settles in the end; and it leaves loading to
\* visualizing when an analysis resolved, to idle with no attractors when an
\* analysis failed or the store was reset.
C32_LoadingIsLeft ==
  /\ (phase = "loading") ~> (phase # "loading")
  /\ [][(phase = "loading" /\ phase' # "loading") =>
          \/ op' = "resolved" /\ phase' = "visualizing" /\ Len(attractors') > 0
          \/ op' \in {"rejected", "reset"} /\ phase' = "idle"
               /\ attractors' = <<>>]_vars

\* C32 witness: every analysis of overlapping submits has settled, the last
\* of them by failing, and the store is idle with no attractors.
C32_Witness ==
  /\ op = "rejected"
  /\ phase = "idle"
  /\ attractors = <<>>
  /\ submits > 1
  /\ pending = {}
  /\ ~transitionComplete

\* The analyses the attractors were built from.
ShownAnalyses == [n \in 1..Len(attractors) |-> attractors[n].analysis]

\* C33: whenever the store is visualizing, the attractors are those of the
\* last submit that started an analysis, two of them if mode is comparison
\* and one if mode is single, with submits overlapping and their analyses
\* resolving in any order.
C33_AttractorsOfLastSubmit ==
  (phase = "visualizing") =>
    /\ ShownAnalyses = mockLLMAnalysis(latest)
    /\ Len(attractors) = (IF mode = "comparison" THEN 2 ELSE 1)

\* A step of the composed system that is a call of submit, of reset.
SubmitStep == op' = "submit" /\ engine'.frames # engine.frames + 1
ResetStep == op' = "reset" /\ engine'.frames # engine.frames + 1

\* C34 as stated: in the store composed with the engine, transitionComplete
\* holds only while the phase is visualizing; every submit and every reset
\* leaves it false; and it becomes true only in a frame callback of the
\* active engine that relays completion.
C34_CompleteOnlyVisualizingAnySubmit ==
  /\ [](transitionComplete => phase = "visualizing")
  /\ [][(SubmitStep \/ ResetStep) => ~transitionComplete']_vars
  /\ [][(~transitionComplete /\ transitionComplete') =>
          /\ engine.active /\ phase = "visualizing"
          /\ engine'.completed /\ op' = "onTransitionComplete"]_vars

\* C34: in the store composed with the engine, transitionComplete holds
\* only while the phase is visualizing; every submit whose first input is
\* not empty after trimming and every reset leaves it false; and it becomes
\* true only in a frame callback of the active engine that relays
\* completion.
C34_CompleteOnlyVisualizing ==
  /\ [](transitionComplete => phase = "visualizing")
  /\ [][((SubmitStep /\ Len(Trim(inputA)) > 0) \/ ResetStep) =>
          ~transitionComplete']_vars
  /\ [][(~transitionComplete /\ transitionComplete') =>
          /\ engine.active /\ phase = "visualizing"
          /\ engine'.completed /\ op' = "onTransitionComplete"]_vars

\* C34 witness: a second submit put transitionComplete back to false, its
\* analysis resolved, and the engine has relayed the completion of the
\* second visualization.
C34_Witness ==
  /\ transitionComplete
  /\ phase = "visualizing"
  /\ op = "onTransitionComplete"
  /\ engine.completed
  /\ engine.elapsedSeconds >= COMPLETE_SECONDS
  /\ submits = 2
  /\ pending = {}

=============================================================================
